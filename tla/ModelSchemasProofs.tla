------------------------- MODULE ModelSchemasProofs -------------------------
(***************************************************************************)
(* Proofs about ModelSchemas: its types, that the derivation never writes *)
(* a struct within itself, that a schema has the shape of its type, and   *)
(* that models are refused exactly if one of their types cannot be said.  *)
(*                                                                         *)
(* Four theorems, each by an invariant that contains the one before it:    *)
(* ModelSchemasInv (types, marks), FitInv (Shape: what is owed), ExactInv  *)
(* (Deriving: what is refused has a reason, what is not has none) and      *)
(* DepthInv (Labelled: how deep the calls go).  Under each, first what the *)
(* operators have, then a lemma for each step, then every step.            *)
(***************************************************************************)
EXTENDS ModelSchemas, SequenceTheorems, FiniteSetTheorems, WellFoundedInduction, TLAPS

\* The structs under way are the ones marked, each once.
MarkedInline ==
    /\ \A i \in DOMAIN stack : stack[i].do = "close" => stack[i].type \in inline
    /\ StructsDoNotNest

\* A call of nullable waits for a node that is there, or for the call above it to write it.
Awaits(frame, path) == frame.do \in {"of", "nullable"} /\ frame.path = path

Pending ==
    \A i \in DOMAIN stack : stack[i].do = "nullable" =>
        \/ stack[i].path \in DOMAIN nodes
        \/ i < Len(stack) /\ Awaits(stack[i + 1], stack[i].path)

NamesRead == at \notin {"names", "refused"} => ~BadModels

ModelSchemasInv == ModelSchemasTypeOK /\ NamesRead /\ Pending /\ MarkedInline

-----------------------------------------------------------------------------
(* Inputs *)

\* What the assumption says of the input under way.
LEMMA InputTypes ==
    ASSUME input \in Inputs
    PROVE  /\ go \in [Types -> GoType]
           /\ models \in Seq(Model)
           /\ \A t \in Types : go[t].kind \in {"pointer", "list", "array", "map"}
                                  => go[t].elem \in Types
BY ModelSchemasAssumption DEF go, models

\* Models that passed the first loop have a type and a valid name.
LEMMA GoodModels ==
    ASSUME input \in Inputs, ~BadModels, NEW i \in DOMAIN models
    PROVE  models[i].type \in Types /\ models[i].name \in Names
<1>1. models[i] \in Model
  BY InputTypes
<1> QED BY <1>1 DEF BadModels, Model

\* A promoted struct is one of the types.
LEMMA InnerType ==
    ASSUME input \in Inputs, NEW field \in Field
    PROVE  Inner(field) \in Types
BY InputTypes DEF Inner, Field

-----------------------------------------------------------------------------
(* Stacks *)

\* The frames after Become.
LEMMA BecomeFrames ==
    ASSUME stack \in Seq(Frame), stack # <<>>, NEW frames \in Seq(Frame), Become(frames)
    PROVE  /\ stack' \in Seq(Frame)
           /\ Len(stack) \in Nat \ {0} /\ Len(frames) \in Nat
           /\ Len(stack') = Len(stack) - 1 + Len(frames)
           /\ \A i \in DOMAIN stack' :
                 \/ i < Len(stack) /\ i \in DOMAIN stack /\ stack'[i] = stack[i]
                 \/ \E j \in DOMAIN frames : i = Len(stack) - 1 + j /\ stack'[i] = frames[j]
           /\ \A j \in DOMAIN frames : stack'[Len(stack) - 1 + j] = frames[j]
<1> DEFINE below == SubSeq(stack, 1, Len(stack) - 1)
<1> HIDE DEF Frame
<1>1. Len(stack) \in Nat \ {0} /\ Len(frames) \in Nat
  BY EmptySeq, LenProperties
<1>2. /\ below \in Seq(Frame)
      /\ Len(below) = Len(stack) - 1
      /\ \A i \in 1 .. Len(stack) - 1 : below[i] = stack[i]
  <2>1. Len(stack) - 1 \in 0 .. Len(stack) /\ Len(stack) - 1 - 1 + 1 = Len(stack) - 1
    BY <1>1
  <2> QED BY <1>1, <2>1, SubSeqProperties
<1>3. stack' = below \o frames
  BY DEF Become
<1> HIDE DEF below
<1>4. /\ below \o frames \in Seq(Frame)
      /\ Len(below \o frames) = Len(below) + Len(frames)
      /\ \A i \in 1 .. Len(below) + Len(frames) :
            (below \o frames)[i] = IF i <= Len(below) THEN below[i] ELSE frames[i - Len(below)]
  BY <1>2, ConcatProperties
<1>5. \A i \in 1 .. Len(stack) - 1 : stack'[i] = stack[i]
  BY <1>1, <1>2, <1>3, <1>4
<1>6. \A j \in 1 .. Len(frames) : stack'[Len(stack) - 1 + j] = frames[j]
  <2> SUFFICES ASSUME NEW j \in 1 .. Len(frames) PROVE stack'[Len(stack) - 1 + j] = frames[j]
    OBVIOUS
  <2> DEFINE k == Len(stack) - 1 + j
  <2>1. k \in 1 .. Len(below) + Len(frames) /\ ~(k <= Len(below)) /\ k - Len(below) = j
    BY <1>1, <1>2
  <2> HIDE DEF k
  <2>2. (below \o frames)[k] = frames[k - Len(below)]
    BY <1>4, <2>1
  <2>3. stack'[k] = frames[j]
    BY <1>3, <2>1, <2>2
  <2> QED BY <2>3 DEF k
<1>7. /\ stack' \in Seq(Frame)
      /\ Len(stack') = Len(stack) - 1 + Len(frames)
      /\ \A i \in 1 .. Len(stack) - 1 : stack'[i] = stack[i]
      /\ \A j \in 1 .. Len(frames) : stack'[Len(stack) - 1 + j] = frames[j]
  BY <1>2, <1>3, <1>4, <1>5, <1>6
<1>8. DOMAIN stack' = 1 .. Len(stack') /\ DOMAIN stack = 1 .. Len(stack)
         /\ DOMAIN frames = 1 .. Len(frames)
  BY <1>7, LenProperties
<1>9. ASSUME NEW i \in DOMAIN stack'
      PROVE  \/ i < Len(stack) /\ i \in DOMAIN stack /\ stack'[i] = stack[i]
             \/ \E j \in DOMAIN frames : i = Len(stack) - 1 + j /\ stack'[i] = frames[j]
  <2>1. CASE i < Len(stack)
    <3>1. i \in 1 .. Len(stack) - 1 /\ i \in DOMAIN stack
      BY <1>1, <1>8, <2>1
    <3> QED BY <1>7, <2>1, <3>1
  <2>2. CASE ~(i < Len(stack))
    <3> DEFINE j == i - (Len(stack) - 1)
    <3>1. j \in 1 .. Len(frames) /\ i = Len(stack) - 1 + j
      BY <1>7, <1>1, <1>8, <2>2
    <3> HIDE DEF j
    <3>2. stack'[i] = frames[j]
      BY <1>7, <3>1
    <3> QED BY <1>8, <3>1, <3>2
  <2> QED BY <2>1, <2>2
<1> QED BY <1>7, <1>1, <1>8, <1>9

\* Calls that neither begin nor end a struct leave the marks alone.
LEMMA KeepMarked ==
    ASSUME MarkedInline, stack \in Seq(Frame), stack # <<>>,
           NEW frames \in Seq(Frame), Become(frames),
           \A j \in DOMAIN frames : frames[j].do # "close",
           inline' = inline
    PROVE  MarkedInline'
<1>1. \A i \in DOMAIN stack' : stack'[i].do = "close" => i \in DOMAIN stack /\ stack'[i] = stack[i]
  BY BecomeFrames
<1> QED BY <1>1 DEF MarkedInline, StructsDoNotNest

\* A call of nullable that is waiting keeps waiting, or its node has been written.
LEMMA KeepPending ==
    ASSUME Pending, stack \in Seq(Frame), stack # <<>>,
           NEW frames \in Seq(Frame), Become(frames),
           DOMAIN nodes \subseteq DOMAIN nodes',
           \/ Top.do \notin {"of", "nullable"}
           \/ Top.path \in DOMAIN nodes'
           \/ 1 \in DOMAIN frames /\ Awaits(frames[1], Top.path),
           \A j \in DOMAIN frames : frames[j].do = "nullable" =>
              j + 1 \in DOMAIN frames /\ Awaits(frames[j + 1], frames[j].path)
    PROVE  Pending'
<1> SUFFICES ASSUME NEW i \in DOMAIN stack', stack'[i].do = "nullable"
             PROVE  \/ stack'[i].path \in DOMAIN nodes'
                    \/ i < Len(stack') /\ Awaits(stack'[i + 1], stack'[i].path)
  BY DEF Pending, Awaits
<1>1. /\ Len(stack) \in Nat \ {0} /\ Len(frames) \in Nat
      /\ Len(stack') = Len(stack) - 1 + Len(frames)
      /\ DOMAIN stack' = 1 .. Len(stack') /\ DOMAIN stack = 1 .. Len(stack)
      /\ DOMAIN frames = 1 .. Len(frames)
  BY BecomeFrames, LenProperties
<1>2. CASE \E j \in DOMAIN frames : i = Len(stack) - 1 + j /\ stack'[i] = frames[j]
  <2>1. PICK j \in DOMAIN frames : i = Len(stack) - 1 + j /\ stack'[i] = frames[j]
    BY <1>2
  <2>2. j + 1 \in DOMAIN frames /\ Awaits(frames[j + 1], frames[j].path)
    BY <2>1
  <2>3. stack'[Len(stack) - 1 + (j + 1)] = frames[j + 1]
    BY <2>2, BecomeFrames
  <2>4. Len(stack) - 1 + (j + 1) = i + 1 /\ i < Len(stack')
    BY <1>1, <2>1, <2>2
  <2> QED BY <2>1, <2>2, <2>3, <2>4
<1>3. CASE i < Len(stack) /\ i \in DOMAIN stack /\ stack'[i] = stack[i]
  <2>1. CASE stack[i].path \in DOMAIN nodes
    BY <1>3, <2>1
  <2>2. CASE i < Len(stack) /\ Awaits(stack[i + 1], stack[i].path)
    <3>1. CASE i + 1 < Len(stack)
      <4>1. i + 1 \in DOMAIN stack' /\ i < Len(stack') /\ i + 1 # Len(stack)
        BY <1>1, <1>3, <3>1
      <4>2. stack'[i + 1] = stack[i + 1]
        BY <1>1, <1>3, <3>1, <4>1, BecomeFrames
      <4> QED BY <1>3, <2>2, <4>1, <4>2
    <3>2. CASE i + 1 = Len(stack)
      <4>1. Awaits(Top, stack[i].path)
        BY <2>2, <3>2 DEF Top
      <4>2. CASE Top.path \in DOMAIN nodes'
        BY <1>3, <4>1, <4>2 DEF Awaits
      <4>3. CASE 1 \in DOMAIN frames /\ Awaits(frames[1], Top.path)
        <5>1. stack'[Len(stack) - 1 + 1] = frames[1]
          BY <4>3, BecomeFrames
        <5>2. i < Len(stack') /\ Len(stack) - 1 + 1 = i + 1
          BY <1>1, <1>3, <3>2, <4>3
        <5> QED BY <1>3, <4>1, <4>3, <5>1, <5>2 DEF Awaits
      <4> QED BY <4>1, <4>2, <4>3 DEF Awaits
    <3> QED BY <1>1, <1>3, <2>2, <3>1, <3>2
  <2> QED BY <1>3, <2>1, <2>2 DEF Pending
<1> QED BY <1>2, <1>3, BecomeFrames

-----------------------------------------------------------------------------
(* Schemas *)

\* A node is added, or replaces the one at its place.
LEMMA PutType ==
    ASSUME DOMAIN nodes \subseteq Seq(Step), \A p \in DOMAIN nodes : nodes[p] \in Node,
           NEW path \in Seq(Step), NEW node \in Node, Put(path, node)
    PROVE  /\ DOMAIN nodes' = DOMAIN nodes \cup {path}
           /\ DOMAIN nodes' \subseteq Seq(Step)
           /\ \A p \in DOMAIN nodes' : nodes'[p] \in Node
BY DEF Put

LEMMA WrittenType ==
    ASSUME NEW t \in Types,
           NEW kind \in {"ref", "any", "string", "integer", "other", "array", "object"}
    PROVE  Written(kind, t) \in Node
BY DEF Written, Node

\* What the innermost call works on.
LEMMA TopType ==
    ASSUME stack \in Seq(Frame), stack # <<>>
    PROVE  /\ Len(stack) \in DOMAIN stack /\ Top \in Frame
           /\ Top.do = "of" => Top.type \in Types /\ Top.path \in Seq(Step)
                                 /\ Top.enum \in {"none", "texts", "integers"}
           /\ Top.do = "fields" => Top.type \in Types /\ Top.next \in Nat \ {0}
                                     /\ Top.path \in Seq(Step)
           /\ Top.do = "close" => Top.type \in Types
           /\ Top.do = "nullable" => Top.path \in Seq(Step)
<1>1. Len(stack) \in Nat \ {0} /\ DOMAIN stack = 1 .. Len(stack)
  BY EmptySeq, LenProperties
<1>2. Top \in Frame
  BY <1>1 DEF Top
<1> QED BY <1>1, <1>2 DEF Frame

\* The frames the calls push.
LEMMA FrameTypes ==
    ASSUME NEW t \in Types, NEW path \in Seq(Step), NEW enum \in {"none", "texts", "integers"},
           NEW n \in Nat \ {0}
    PROVE  /\ OfFrame(t, enum, path) \in Frame
           /\ FieldsFrame(t, n, path) \in Frame
           /\ CloseFrame(t) \in Frame
           /\ NullableFrame(path) \in Frame
           /\ ElementsFrame(enum) \in Frame
BY DEF OfFrame, FieldsFrame, CloseFrame, NullableFrame, ElementsFrame, Frame

-----------------------------------------------------------------------------
(* The steps *)

\* A step of deriver that begins and ends no struct.
LEMMA CallKeeps ==
    ASSUME ModelSchemasInv, stack # <<>>, UNCHANGED locals,
           NEW frames \in Seq(Frame), Become(frames), inline' = inline,
           \A j \in DOMAIN frames : frames[j].do # "close",
           seen' \subseteq Seq(Step), required' \subseteq Seq(Step),
           DOMAIN nodes' \subseteq Seq(Step), \A p \in DOMAIN nodes' : nodes'[p] \in Node,
           DOMAIN nodes \subseteq DOMAIN nodes',
           \/ Top.do \notin {"of", "nullable"}
           \/ Top.path \in DOMAIN nodes'
           \/ 1 \in DOMAIN frames /\ Awaits(frames[1], Top.path),
           \A j \in DOMAIN frames : frames[j].do = "nullable" =>
              j + 1 \in DOMAIN frames /\ Awaits(frames[j + 1], frames[j].path)
    PROVE  ModelSchemasInv'
<1>1. stack \in Seq(Frame)
  BY DEF ModelSchemasInv, ModelSchemasTypeOK
<1>2. stack' \in Seq(Frame)
  BY <1>1, BecomeFrames
<1>3. MarkedInline'
  BY <1>1, KeepMarked DEF ModelSchemasInv
<1>4. Pending'
  <2> HIDE DEF Frame
  <2> QED BY <1>1, KeepPending DEF ModelSchemasInv
<1>5. ModelSchemasTypeOK'
  BY <1>2 DEF ModelSchemasInv, ModelSchemasTypeOK, locals, models
<1>6. NamesRead'
  BY DEF ModelSchemasInv, NamesRead, BadModels, models, locals
<1> QED BY <1>3, <1>4, <1>5, <1>6 DEF ModelSchemasInv

LEMMA RefuseKeeps ==
    ASSUME ModelSchemasInv, Refuse
    PROVE  ModelSchemasInv'
<1>1. stack' = <<>> /\ DOMAIN nodes' = {} /\ DOMAIN out' = {} /\ DOMAIN stack' = {}
  BY DEF Refuse, Empty
<1> QED BY <1>1 DEF ModelSchemasInv, ModelSchemasTypeOK, NamesRead, Pending, MarkedInline,
                    StructsDoNotNest, Refuse, models

LEMMA InitKeeps == ModelSchemasInit => ModelSchemasInv
<1> SUFFICES ASSUME ModelSchemasInit PROVE ModelSchemasInv
  OBVIOUS
<1>1. DOMAIN nodes = {} /\ DOMAIN out = {} /\ DOMAIN stack = {} /\ stack \in Seq(Frame)
  BY DEF ModelSchemasInit, Empty
<1>2. 1 \in 1 .. Len(models) + 1
  BY InputTypes, LenProperties DEF ModelSchemasInit
<1> QED BY <1>1, <1>2 DEF ModelSchemasInit, ModelSchemasInv, ModelSchemasTypeOK, NamesRead,
                          Pending, MarkedInline, StructsDoNotNest

LEMMA ReadNamesKeeps ==
    ASSUME ModelSchemasInv, ReadNames
    PROVE  ModelSchemasInv'
<1>1. CASE BadModels /\ Refuse
  BY <1>1, RefuseKeeps
<1>2. CASE ~BadModels /\ at' = "model" /\ UNCHANGED <<input, index, deriver, out>>
  BY <1>2 DEF ModelSchemasInv, ModelSchemasTypeOK, NamesRead, Pending, MarkedInline,
              StructsDoNotNest, deriver, BadModels, models, Awaits
<1> QED BY <1>1, <1>2 DEF ReadNames

LEMMA BeginModelKeeps ==
    ASSUME ModelSchemasInv, BeginModel
    PROVE  ModelSchemasInv'
<1> DEFINE model == models[index]
<1>1. /\ input \in Inputs /\ ~BadModels
      /\ index \in 1 .. Len(models) /\ index \in DOMAIN models
      /\ models \in Seq(Model)
  <2>1. models \in Seq(Model)
    BY InputTypes DEF ModelSchemasInv, ModelSchemasTypeOK
  <2> QED BY <2>1, LenProperties
         DEF ModelSchemasInv, ModelSchemasTypeOK, NamesRead, BeginModel
<1>2. model.type \in Types /\ model.name \in Names
  BY <1>1, GoodModels
<1>3. CASE Refuse
  BY <1>3, RefuseKeeps
<1>4. ASSUME at' = "derive", seen' = {}, required' = {}, UNCHANGED <<input, index, out>>,
             stack' \in Seq(Frame), inline' \subseteq Types,
             DOMAIN nodes' \subseteq Seq(Step), \A p \in DOMAIN nodes' : nodes'[p] \in Node
      PROVE  ModelSchemasTypeOK' /\ NamesRead'
  BY <1>1, <1>4 DEF ModelSchemasInv, ModelSchemasTypeOK, NamesRead, BadModels, models, BeginModel
<1>5. <<>> \in Seq(Step)
  OBVIOUS
<1>6. CASE /\ stack' = <<CloseFrame(model.type), FieldsFrame(model.type, 1, <<>>)>>
           /\ inline' = {model.type}
           /\ nodes' = [p \in {<<>>} |-> Written("object", model.type)]
           /\ at' = "derive" /\ seen' = {} /\ required' = {} /\ UNCHANGED <<input, index, out>>
  <2> HIDE DEF model
  <2>1. CloseFrame(model.type) \in Frame /\ FieldsFrame(model.type, 1, <<>>) \in Frame
    BY <1>2, <1>5 DEF CloseFrame, FieldsFrame, Frame
  <2>2. stack' \in Seq(Frame) /\ Len(stack') = 2 /\ DOMAIN stack' = {1, 2}
    <3> HIDE DEF Frame
    <3> QED BY <1>6, <2>1
  <2>3. Written("object", model.type) \in Node
    BY <1>2, WrittenType
  <2>4. ModelSchemasTypeOK' /\ NamesRead'
    BY <1>2, <1>4, <1>5, <1>6, <2>2, <2>3
  <2>5. stack'[1].do = "close" /\ stack'[1].type = model.type /\ stack'[2].do = "fields"
    BY <1>6 DEF CloseFrame, FieldsFrame
  <2>6. Pending' /\ MarkedInline'
    BY <1>6, <2>2, <2>5 DEF Pending, MarkedInline, StructsDoNotNest
  <2> QED BY <2>4, <2>6 DEF ModelSchemasInv
<1>7. CASE /\ stack' = <<OfFrame(model.type, "none", <<>>)>>
           /\ inline' = {}
           /\ nodes' = Empty
           /\ at' = "derive" /\ seen' = {} /\ required' = {} /\ UNCHANGED <<input, index, out>>
  <2> HIDE DEF model
  <2>1. OfFrame(model.type, "none", <<>>) \in Frame
    BY <1>2, <1>5 DEF OfFrame, Frame
  <2>2. stack' \in Seq(Frame) /\ Len(stack') = 1 /\ DOMAIN stack' = {1} /\ DOMAIN nodes' = {}
    <3> HIDE DEF Frame
    <3> QED BY <1>7, <2>1 DEF Empty
  <2>3. ModelSchemasTypeOK' /\ NamesRead'
    BY <1>4, <1>7, <2>2
  <2>4. stack'[1].do = "of"
    BY <1>7 DEF OfFrame
  <2>5. Pending' /\ MarkedInline'
    BY <1>7, <2>2, <2>4 DEF Pending, MarkedInline, StructsDoNotNest
  <2> QED BY <2>3, <2>5 DEF ModelSchemasInv
<1> QED BY <1>3, <1>6, <1>7 DEF BeginModel

LEMMA StoreModelKeeps ==
    ASSUME ModelSchemasInv, StoreModel
    PROVE  ModelSchemasInv'
<1>1. CASE Refuse
  BY <1>1, RefuseKeeps
<1>2. CASE ~Refuse
  <2>1. /\ out' = [n \in DOMAIN out \cup {models[index].name} |->
                      IF n = models[index].name THEN [nodes |-> nodes, required |-> required]
                      ELSE out[n]]
        /\ index' = index + 1 /\ at' = "model" /\ at = "derive"
        /\ UNCHANGED <<input, deriver>>
    BY <1>2 DEF StoreModel
  <2>2. models \in Seq(Model) /\ Len(models) \in Nat /\ DOMAIN models = 1 .. Len(models)
    BY InputTypes, LenProperties DEF ModelSchemasInv, ModelSchemasTypeOK
  <2>3. index \in 1 .. Len(models) /\ ~BadModels
    BY <2>1, <2>2 DEF ModelSchemasInv, ModelSchemasTypeOK, NamesRead
  <2>4. models[index].name \in Names
    BY <2>2, <2>3, GoodModels DEF ModelSchemasInv, ModelSchemasTypeOK
  <2>5. DOMAIN out' \subseteq Names
    BY <2>1, <2>4 DEF ModelSchemasInv, ModelSchemasTypeOK
  <2>6. index' \in 1 .. Len(models') + 1
    BY <2>1, <2>2, <2>3 DEF models
  <2>7. ModelSchemasTypeOK'
    BY <2>1, <2>5, <2>6 DEF ModelSchemasInv, ModelSchemasTypeOK, deriver
  <2> QED BY <2>1, <2>3, <2>7 DEF ModelSchemasInv, NamesRead, BadModels, models, Pending, Awaits,
                                  MarkedInline, StructsDoNotNest, deriver
<1> QED BY <1>1, <1>2

LEMMA StopKeeps ==
    ASSUME ModelSchemasInv, ReturnSchemas \/ Overflow \/ UNCHANGED vars
    PROVE  ModelSchemasInv'
<1>1. /\ input' = input /\ index' = index /\ out' = out
      /\ stack' = stack /\ inline' = inline /\ seen' = seen /\ nodes' = nodes
      /\ required' = required
      /\ at' \in {"done", "overflow", at} /\ (at' = "derive" => at = "derive")
      /\ at' \notin {"names", "refused"} => at \notin {"names", "refused"}
  BY DEF ReturnSchemas, Overflow, vars, deriver
<1>2. ModelSchemasTypeOK'
  BY <1>1 DEF ModelSchemasInv, ModelSchemasTypeOK, models
<1>3. NamesRead'
  BY <1>1 DEF ModelSchemasInv, NamesRead, BadModels, models
<1>4. Pending' /\ MarkedInline'
  BY <1>1 DEF ModelSchemasInv, Pending, Awaits, MarkedInline, StructsDoNotNest
<1> QED BY <1>2, <1>3, <1>4 DEF ModelSchemasInv

-----------------------------------------------------------------------------
(* The steps of deriver *)

\* What the steps below use of the invariant.
LEMMA AtCall ==
    ASSUME ModelSchemasInv, NEW do, Runs(do)
    PROVE  /\ input \in Inputs /\ stack \in Seq(Frame) /\ stack # <<>> /\ Top.do = do
           /\ seen \subseteq Seq(Step) /\ required \subseteq Seq(Step)
           /\ DOMAIN nodes \subseteq Seq(Step) /\ \A p \in DOMAIN nodes : nodes[p] \in Node
           /\ inline \subseteq Types
BY DEF ModelSchemasInv, ModelSchemasTypeOK, Runs

LEMMA DereferenceKeeps ==
    ASSUME ModelSchemasInv, Dereference
    PROVE  ModelSchemasInv'
<1>1. Runs("of") /\ go[Top.type].kind = "pointer"
  BY DEF Dereference
<1>2. /\ Top.type \in Types /\ Top.path \in Seq(Step)
      /\ Top.enum \in {"none", "texts", "integers"} /\ stack # <<>>
  BY <1>1, AtCall, TopType
<1>3. go[Top.type].elem \in Types
  BY <1>1, <1>2, AtCall, InputTypes
<1> DEFINE f == NullableFrame(Top.path)
<1> DEFINE g == OfFrame(go[Top.type].elem, Top.enum, Top.path)
<1>4. f \in Frame /\ g \in Frame
  BY <1>2, <1>3 DEF NullableFrame, OfFrame, Frame
<1>5. f.do = "nullable" /\ g.do = "of" /\ g.path = f.path /\ f.path = Top.path
  BY DEF NullableFrame, OfFrame
<1>6. Become(<<f, g>>) /\ UNCHANGED <<locals, inline, seen, nodes, required>>
  BY DEF Dereference
<1> HIDE DEF f, g
<1>7. <<f, g>> \in Seq(Frame) /\ DOMAIN <<f, g>> = {1, 2}
  <2> HIDE DEF Frame
  <2> QED BY <1>4
<1>8. Awaits(f, Top.path) /\ Awaits(g, f.path)
  BY <1>5 DEF Awaits
<1> DEFINE frames == <<f, g>>
<1>9. /\ 1 \in DOMAIN frames /\ Awaits(frames[1], Top.path)
      /\ \A j \in DOMAIN frames : frames[j].do # "close"
      /\ \A j \in DOMAIN frames : frames[j].do = "nullable" =>
            j + 1 \in DOMAIN frames /\ Awaits(frames[j + 1], frames[j].path)
  BY <1>5, <1>7, <1>8
<1>10. frames \in Seq(Frame) /\ Become(frames)
  BY <1>6, <1>7
<1> HIDE DEF frames
<1>11. /\ seen' \subseteq Seq(Step) /\ required' \subseteq Seq(Step)
       /\ DOMAIN nodes' \subseteq Seq(Step) /\ \A p \in DOMAIN nodes' : nodes'[p] \in Node
       /\ DOMAIN nodes \subseteq DOMAIN nodes' /\ inline' = inline /\ UNCHANGED locals
  BY <1>1, <1>6, AtCall
<1> QED BY <1>2, <1>9, <1>10, <1>11, CallKeeps

\* What a call leaves the schema and the sets as.
SchemaKept ==
    /\ UNCHANGED locals /\ inline' = inline
    /\ seen' \subseteq Seq(Step) /\ required' \subseteq Seq(Step)
    /\ DOMAIN nodes' \subseteq Seq(Step) /\ \A p \in DOMAIN nodes' : nodes'[p] \in Node
    /\ DOMAIN nodes \subseteq DOMAIN nodes'
    /\ Top.do \notin {"of", "nullable"} \/ Top.path \in DOMAIN nodes'

Plain == {"of", "fields", "elements"}

LEMMA NoFrameKeeps ==
    ASSUME ModelSchemasInv, stack # <<>>, SchemaKept, Become(<<>>)
    PROVE  ModelSchemasInv'
<1>1. <<>> \in Seq(Frame) /\ DOMAIN <<>> = {}
  OBVIOUS
<1> QED BY <1>1, CallKeeps DEF SchemaKept

LEMMA OneFrameKeeps ==
    ASSUME ModelSchemasInv, stack # <<>>, SchemaKept,
           NEW f \in Frame, f.do \in Plain, Become(<<f>>)
    PROVE  ModelSchemasInv'
<1> DEFINE frames == <<f>>
<1>1. frames \in Seq(Frame) /\ DOMAIN frames = {1} /\ frames[1] = f
  <2> HIDE DEF Frame
  <2> QED OBVIOUS
<1>2. Become(frames)
  OBVIOUS
<1> HIDE DEF frames
<1>3. \A j \in DOMAIN frames : frames[j].do # "close" /\ frames[j].do # "nullable"
  BY <1>1 DEF Plain
<1> QED BY <1>1, <1>2, <1>3, CallKeeps DEF SchemaKept

LEMMA TwoFramesKeep ==
    ASSUME ModelSchemasInv, stack # <<>>, SchemaKept,
           NEW f \in Frame, NEW g \in Frame, f.do \in Plain, g.do \in Plain, Become(<<f, g>>)
    PROVE  ModelSchemasInv'
<1> DEFINE frames == <<f, g>>
<1>1. frames \in Seq(Frame) /\ DOMAIN frames = {1, 2} /\ frames[1] = f /\ frames[2] = g
  <2> HIDE DEF Frame
  <2> QED OBVIOUS
<1>2. Become(frames)
  OBVIOUS
<1> HIDE DEF frames
<1>3. \A j \in DOMAIN frames : frames[j].do # "close" /\ frames[j].do # "nullable"
  BY <1>1 DEF Plain
<1> QED BY <1>1, <1>2, <1>3, CallKeeps DEF SchemaKept

\* A node written at the path of the innermost call.
LEMMA PutKeeps ==
    ASSUME ModelSchemasInv, NEW node \in Node, Top.path \in Seq(Step), Put(Top.path, node),
           UNCHANGED <<locals, seen, required>>, inline' = inline
    PROVE  SchemaKept
<1>1. /\ seen \subseteq Seq(Step) /\ required \subseteq Seq(Step)
      /\ DOMAIN nodes \subseteq Seq(Step) /\ \A p \in DOMAIN nodes : nodes[p] \in Node
  BY DEF ModelSchemasInv, ModelSchemasTypeOK
<1>2. /\ DOMAIN nodes' = DOMAIN nodes \cup {Top.path} /\ DOMAIN nodes' \subseteq Seq(Step)
      /\ \A p \in DOMAIN nodes' : nodes'[p] \in Node
  BY <1>1, PutType
<1> QED BY <1>1, <1>2 DEF SchemaKept

LEMMA ReferKeeps ==
    ASSUME ModelSchemasInv, Refer
    PROVE  ModelSchemasInv'
<1>1. Runs("of") /\ Put(Top.path, Written("ref", Top.type)) /\ Become(<<>>)
         /\ UNCHANGED <<locals, inline, seen, required>>
  BY DEF Refer
<1>2. Top.type \in Types /\ Top.path \in Seq(Step) /\ stack # <<>>
  BY <1>1, AtCall, TopType
<1>3. Written("ref", Top.type) \in Node
  BY <1>2, WrittenType
<1> QED BY <1>1, <1>2, <1>3, PutKeeps, NoFrameKeeps

LEMMA WriteScalarKeeps ==
    ASSUME ModelSchemasInv, WriteScalar
    PROVE  ModelSchemasInv'
<1> DEFINE kind == SchemaKind(go[Top.type].kind)
<1> DEFINE node == [Written(kind, Top.type) EXCEPT !.enum = (Top.enum # "none")]
<1>1. Runs("of") /\ go[Top.type].kind \in {"time", "any", "string", "integer", "byte", "other"}
  BY DEF WriteScalar, Describes
<1>2. CASE Refuse
  BY <1>2, RefuseKeeps
<1>3. CASE /\ Put(Top.path, node) /\ Become(<<>>) /\ UNCHANGED <<locals, inline, seen, required>>
  <2>1. Top.type \in Types /\ Top.path \in Seq(Step) /\ stack # <<>>
    BY <1>1, AtCall, TopType
  <2>2. kind \in {"string", "integer", "any", "other"}
    BY <1>1 DEF SchemaKind
  <2> HIDE DEF kind
  <2>3. node \in Node
    BY <2>1, <2>2 DEF Written, Node
  <2> HIDE DEF node
  <2> QED BY <1>3, <2>1, <2>3, PutKeeps, NoFrameKeeps
<1> QED BY <1>2, <1>3 DEF WriteScalar

LEMMA RefuseTypeKeeps ==
    ASSUME ModelSchemasInv, RefuseType
    PROVE  ModelSchemasInv'
BY RefuseKeeps DEF RefuseType

LEMMA EnterElementsKeeps ==
    ASSUME ModelSchemasInv, EnterElements
    PROVE  ModelSchemasInv'
<1> DEFINE map == go[Top.type].kind = "map"
<1> DEFINE node == Written(IF map THEN "object" ELSE "array", Top.type)
<1> DEFINE f == ElementsFrame(Top.enum)
<1> DEFINE path == Append(Top.path, IF map THEN Values ELSE Items)
<1> DEFINE g == OfFrame(go[Top.type].elem, "none", path)
<1>1. Runs("of") /\ go[Top.type].kind \in {"list", "array", "map"}
  BY DEF EnterElements, Describes
<1>2. /\ Top.type \in Types /\ Top.path \in Seq(Step) /\ stack # <<>>
      /\ Top.enum \in {"none", "texts", "integers"}
  BY <1>1, AtCall, TopType
<1>3. go[Top.type].elem \in Types
  BY <1>1, <1>2, AtCall, InputTypes
<1>4. path \in Seq(Step)
  BY <1>2 DEF Step
<1>5. f \in Frame /\ f.do \in Plain
  BY <1>2 DEF ElementsFrame, Frame, Plain
<1>6. g \in Frame /\ g.do \in Plain
  <2> HIDE DEF path
  <2> QED BY <1>3, <1>4 DEF OfFrame, Frame, Plain
<1>7. node \in Node
  BY <1>2, WrittenType
<1>8. Put(Top.path, node) /\ Become(<<f, g>>) /\ UNCHANGED <<locals, inline, seen, required>>
  BY DEF EnterElements
<1> HIDE DEF node, f, g
<1>9. SchemaKept
  BY <1>2, <1>7, <1>8, PutKeeps
<1> QED BY <1>2, <1>5, <1>6, <1>8, <1>9, TwoFramesKeep

LEMMA EndElementsKeeps ==
    ASSUME ModelSchemasInv, EndElements
    PROVE  ModelSchemasInv'
<1>1. CASE Refuse
  BY <1>1, RefuseKeeps
<1>2. CASE Become(<<>>) /\ UNCHANGED <<locals, inline, seen, nodes, required>>
  <2>1. Runs("elements")
    BY DEF EndElements
  <2>2. SchemaKept
    BY <1>2, <2>1, AtCall DEF SchemaKept
  <2> QED BY <1>2, <2>1, <2>2, AtCall, NoFrameKeeps
<1> QED BY <1>1, <1>2 DEF EndElements

LEMMA MakeNullableKeeps ==
    ASSUME ModelSchemasInv, MakeNullable
    PROVE  ModelSchemasInv'
<1> DEFINE node == nodes[Top.path]
<1> DEFINE new == [node EXCEPT !.null = (node.kind # "any"),
                               !.repeats = node.repeats \/ (node.enum /\ node.null)]
<1>1. Runs("nullable") /\ stack # <<>> /\ stack \in Seq(Frame)
  BY AtCall DEF MakeNullable
<1>2. Top.path \in Seq(Step) /\ Len(stack) \in DOMAIN stack
  BY <1>1, AtCall, TopType
<1>3. Top.path \in DOMAIN nodes
  <2>1. stack[Len(stack)].do = "nullable" /\ ~(Len(stack) < Len(stack))
    BY <1>1, LenProperties, AtCall DEF Top
  <2> QED BY <1>2, <2>1 DEF ModelSchemasInv, Pending, Top
<1>4. node \in Node
  BY <1>1, <1>3, AtCall
<1> HIDE DEF node
<1>5. new \in Node
  BY <1>4 DEF Node
<1>6. Put(Top.path, new) /\ Become(<<>>) /\ UNCHANGED <<locals, inline, seen, required>>
  BY DEF MakeNullable, node
<1> HIDE DEF new
<1> QED BY <1>1, <1>2, <1>5, <1>6, PutKeeps, NoFrameKeeps

\* The marks: a struct is entered only if it is not under way.
LEMMA EnterStructKeeps ==
    ASSUME ModelSchemasInv, EnterStruct
    PROVE  ModelSchemasInv'
<1>1. CASE Refuse
  BY <1>1, RefuseKeeps
<1>2. CASE ~Refuse
  <2> DEFINE f == CloseFrame(Top.type)
  <2> DEFINE g == FieldsFrame(Top.type, 1, Top.path)
  <2> DEFINE frames == <<f, g>>
  <2>1. /\ Runs("of") /\ Top.type \notin inline /\ inline' = inline \cup {Top.type}
        /\ Put(Top.path, Written("object", Top.type)) /\ Become(frames)
        /\ UNCHANGED <<locals, seen, required>>
    BY <1>2 DEF EnterStruct, Describes, Inside
  <2>2. Top.type \in Types /\ Top.path \in Seq(Step) /\ stack # <<>> /\ stack \in Seq(Frame)
    BY <2>1, AtCall, TopType
  <2>3. f \in Frame /\ g \in Frame
    BY <2>2 DEF CloseFrame, FieldsFrame, Frame
  <2>4. f.do = "close" /\ f.type = Top.type /\ g.do = "fields"
    BY DEF CloseFrame, FieldsFrame
  <2> HIDE DEF f, g
  <2>5. frames \in Seq(Frame) /\ DOMAIN frames = {1, 2} /\ frames[1] = f /\ frames[2] = g
    <3> HIDE DEF Frame
    <3> QED BY <2>3
  <2> HIDE DEF frames
  <2>6. /\ stack' \in Seq(Frame) /\ Len(stack) \in Nat \ {0}
        /\ \A i \in DOMAIN stack' :
              \/ i < Len(stack) /\ i \in DOMAIN stack /\ stack'[i] = stack[i]
              \/ \E j \in DOMAIN frames : i = Len(stack) - 1 + j /\ stack'[i] = frames[j]
    <3> HIDE DEF Frame
    <3> QED BY <2>1, <2>2, <2>5, BecomeFrames
  <2>7. ASSUME NEW i \in DOMAIN stack', stack'[i].do = "close"
        PROVE  \/ i \in DOMAIN stack /\ stack'[i] = stack[i]
               \/ i = Len(stack) /\ stack'[i].type = Top.type
    BY <2>4, <2>5, <2>6, <2>7
  <2>8. MarkedInline'
    <3>1. \A i \in DOMAIN stack' : stack'[i].do = "close" => stack'[i].type \in inline'
      BY <2>1, <2>7 DEF ModelSchemasInv, MarkedInline
    <3>2. ASSUME NEW i \in DOMAIN stack', NEW j \in DOMAIN stack', stack'[i].do = "close",
                 stack'[j].do = "close", stack'[i].type = stack'[j].type
          PROVE  i = j
      BY <2>1, <2>7, <3>2 DEF ModelSchemasInv, MarkedInline, StructsDoNotNest
    <3> QED BY <3>1, <3>2 DEF MarkedInline, StructsDoNotNest
  <2>9. /\ DOMAIN nodes' = DOMAIN nodes \cup {Top.path} /\ DOMAIN nodes' \subseteq Seq(Step)
        /\ \A p \in DOMAIN nodes' : nodes'[p] \in Node
    <3>1. Written("object", Top.type) \in Node
      BY <2>2, WrittenType
    <3> QED BY <2>1, <2>2, <3>1, AtCall, PutType
  <2>10. \A j \in DOMAIN frames : frames[j].do # "nullable"
    BY <2>4, <2>5
  <2>11. Pending'
    <3> HIDE DEF Frame
    <3> QED BY <2>1, <2>2, <2>5, <2>9, <2>10, KeepPending DEF ModelSchemasInv
  <2>12. ModelSchemasTypeOK'
    BY <2>1, <2>2, <2>6, <2>9 DEF ModelSchemasInv, ModelSchemasTypeOK, locals, models
  <2>13. NamesRead'
    BY <2>1 DEF ModelSchemasInv, NamesRead, BadModels, models, locals
  <2> QED BY <2>8, <2>11, <2>12, <2>13 DEF ModelSchemasInv
<1> QED BY <1>1, <1>2

\* The mark that goes is that of the innermost struct: the others are of other types.
LEMMA CloseStructKeeps ==
    ASSUME ModelSchemasInv, CloseStruct
    PROVE  ModelSchemasInv'
<1>1. /\ Runs("close") /\ inline' = inline \ {Top.type} /\ Become(<<>>)
      /\ UNCHANGED <<locals, seen, nodes, required>>
  BY DEF CloseStruct, Outside
<1>2. stack # <<>> /\ stack \in Seq(Frame) /\ Top.do = "close" /\ Len(stack) \in DOMAIN stack
  BY <1>1, AtCall, TopType
<1>3. <<>> \in Seq(Frame) /\ DOMAIN <<>> = {}
  OBVIOUS
<1>4. /\ stack' \in Seq(Frame) /\ Len(stack) \in Nat \ {0}
      /\ \A i \in DOMAIN stack' : i < Len(stack) /\ i \in DOMAIN stack /\ stack'[i] = stack[i]
  <2> HIDE DEF Frame
  <2> QED BY <1>1, <1>2, <1>3, BecomeFrames
<1>5. MarkedInline'
  <2>1. \A i \in DOMAIN stack' : i # Len(stack)
    BY <1>4
  <2>2. \A i \in DOMAIN stack' : stack'[i].do = "close" => stack'[i].type # Top.type
    BY <1>2, <1>4, <2>1 DEF Top, ModelSchemasInv, MarkedInline, StructsDoNotNest
  <2> QED BY <1>1, <1>4, <2>2 DEF ModelSchemasInv, MarkedInline, StructsDoNotNest
<1>6. Pending'
  <2> HIDE DEF Frame
  <2>1. Top.do \notin {"of", "nullable"} /\ DOMAIN nodes \subseteq DOMAIN nodes'
    BY <1>1, <1>2
  <2> QED BY <1>1, <1>2, <1>3, <2>1, KeepPending DEF ModelSchemasInv
<1>7. ModelSchemasTypeOK'
  BY <1>1, <1>4 DEF ModelSchemasInv, ModelSchemasTypeOK, locals, models
<1>8. NamesRead'
  BY <1>1 DEF ModelSchemasInv, NamesRead, BadModels, models, locals
<1> QED BY <1>5, <1>6, <1>7, <1>8 DEF ModelSchemasInv

LEMMA FieldStepKeeps ==
    ASSUME ModelSchemasInv, Runs("fields"), UNCHANGED <<locals, inline, nodes>>,
           seen' \subseteq Seq(Step), required' \subseteq Seq(Step)
    PROVE  SchemaKept
BY AtCall DEF SchemaKept

\* The field in hand.
LEMMA AtFieldType ==
    ASSUME ModelSchemasInv, AtField
    PROVE  /\ Runs("fields") /\ stack # <<>> /\ CurrentField \in Field
           /\ GoOn \in Frame /\ GoOn.do \in Plain /\ Top.path \in Seq(Step)
<1>1. Runs("fields") /\ Top.next <= Len(go[Top.type].fields)
  BY DEF AtField
<1>2. Top.type \in Types /\ Top.next \in Nat \ {0} /\ Top.path \in Seq(Step) /\ stack # <<>>
  BY <1>1, AtCall, TopType
<1>3. go[Top.type].fields \in Seq(Field)
  BY <1>1, <1>2, AtCall, InputTypes DEF GoType
<1>4. CurrentField \in Field
  <2> HIDE DEF Field
  <2>1. Top.next \in 1 .. Len(go[Top.type].fields)
    BY <1>1, <1>2, <1>3, LenProperties
  <2> QED BY <1>3, <2>1 DEF CurrentField
<1>5. GoOn \in Frame /\ GoOn.do \in Plain
  BY <1>2 DEF GoOn, FieldsFrame, Frame, Plain
<1> QED BY <1>1, <1>2, <1>4, <1>5

LEMMA EndFieldsKeeps ==
    ASSUME ModelSchemasInv, EndFields
    PROVE  ModelSchemasInv'
<1>1. Runs("fields") /\ Become(<<>>) /\ UNCHANGED <<locals, inline, seen, nodes, required>>
  BY DEF EndFields
<1>2. SchemaKept
  BY <1>1, AtCall, FieldStepKeeps
<1> QED BY <1>1, <1>2, AtCall, NoFrameKeeps

LEMMA SkipFieldKeeps ==
    ASSUME ModelSchemasInv, SkipField
    PROVE  ModelSchemasInv'
<1>1. AtField /\ Become(<<GoOn>>) /\ UNCHANGED <<locals, inline, seen, nodes, required>>
  BY DEF SkipField
<1>2. SchemaKept
  BY <1>1, AtCall, AtFieldType, FieldStepKeeps
<1> QED BY <1>1, <1>2, AtFieldType, OneFrameKeeps

LEMMA PromoteFieldsKeeps ==
    ASSUME ModelSchemasInv, PromoteFields
    PROVE  ModelSchemasInv'
<1> DEFINE f == FieldsFrame(Inner(CurrentField), 1, Top.path)
<1>1. AtField /\ Become(<<GoOn, f>>) /\ UNCHANGED <<locals, inline, seen, nodes, required>>
  BY DEF PromoteFields
<1>2. SchemaKept
  BY <1>1, AtCall, AtFieldType, FieldStepKeeps
<1>3. Inner(CurrentField) \in Types
  BY <1>1, AtCall, AtFieldType, InnerType
<1>4. f \in Frame /\ f.do \in Plain
  BY <1>1, <1>3, AtFieldType DEF FieldsFrame, Frame, Plain
<1> HIDE DEF f
<1> QED BY <1>1, <1>2, <1>4, AtFieldType, TwoFramesKeep

LEMMA WriteFieldKeeps ==
    ASSUME ModelSchemasInv, WriteField
    PROVE  ModelSchemasInv'
<1> DEFINE path == Append(Top.path, CurrentField.property)
<1> DEFINE f == OfFrame(CurrentField.type, CurrentField.enum, path)
<1>1. CASE Refuse
  BY <1>1, RefuseKeeps
<1>2. CASE ~Refuse
  <2>1. /\ AtField /\ Become(<<GoOn, f>>) /\ UNCHANGED <<locals, inline, nodes>>
        /\ seen' = seen \cup {path} /\ required' = required \cup RequiredBy(CurrentField, path)
    BY <1>2 DEF WriteField
  <2>2. CurrentField \in Field /\ Top.path \in Seq(Step)
    BY <2>1, AtFieldType
  <2>3. path \in Seq(Step)
    <3>1. CurrentField.property \in Step
      BY <2>2 DEF Field, Step
    <3> QED BY <2>2, <3>1
  <2>4. f \in Frame /\ f.do \in Plain
    <3> HIDE DEF path
    <3> QED BY <2>2, <2>3 DEF OfFrame, Field, Frame, Plain
  <2> HIDE DEF path, f
  <2>5. SchemaKept
    BY <2>1, <2>3, AtCall, AtFieldType, FieldStepKeeps DEF RequiredBy
  <2> QED BY <2>1, <2>4, <2>5, AtFieldType, TwoFramesKeep
<1> QED BY <1>1, <1>2

-----------------------------------------------------------------------------
(* Theorems *)

LEMMA StepKeeps ==
    ASSUME ModelSchemasInv, [ModelSchemasNext]_vars
    PROVE  ModelSchemasInv'
BY ReadNamesKeeps, BeginModelKeeps, StoreModelKeeps, StopKeeps, DereferenceKeeps, ReferKeeps,
   WriteScalarKeeps, RefuseTypeKeeps, EnterElementsKeeps, EndElementsKeeps, EnterStructKeeps,
   CloseStructKeeps, MakeNullableKeeps, EndFieldsKeeps, SkipFieldKeeps, PromoteFieldsKeeps,
   WriteFieldKeeps
DEF ModelSchemasNext

(***************************************************************************)
(* The derivation of any models over any Go types keeps its type: each     *)
(* call has the types, paths and schemas it works on, nullable finds the  *)
(* node it changes, and a component has a name that is valid.              *)
(***************************************************************************)
THEOREM ModelSchemasTypeCorrect == ModelSchemasSpec => []ModelSchemasTypeOK
<1>1. ModelSchemasInv /\ [ModelSchemasNext]_vars => ModelSchemasInv'
  BY StepKeeps
<1>2. ModelSchemasInv => ModelSchemasTypeOK
  BY DEF ModelSchemasInv
<1> QED BY InitKeeps, <1>1, <1>2, PTL DEF ModelSchemasSpec

(***************************************************************************)
(* deriver.inline works for any types: a struct is never being written    *)
(* within itself, however the two are related and whatever was refused or *)
(* written before.                                                         *)
(***************************************************************************)
THEOREM StructsNeverNest == ModelSchemasSpec => []StructsDoNotNest
<1>1. ModelSchemasInv /\ [ModelSchemasNext]_vars => ModelSchemasInv'
  BY StepKeeps
<1>2. ModelSchemasInv => StructsDoNotNest
  BY DEF ModelSchemasInv, MarkedInline
<1> QED BY InitKeeps, <1>1, <1>2, PTL DEF ModelSchemasSpec

-----------------------------------------------------------------------------
(* What a derivation under way owes: every node is there, or the call that *)
(* is to write it is; every field of a struct is written, or a call of     *)
(* fields has it before it.                                                *)

\* The calls in progress, and those that are not the innermost.
Calls == {stack[i] : i \in DOMAIN stack}
Below == {stack[i] : i \in 1 .. Len(stack) - 1}

\* A node is to be written at a path, or to be made nullable.
Coming(q) == \E c \in Calls : c.do = "of" /\ c.path = q
Waits(q)  == \E c \in Calls : c.do = "nullable" /\ c.path = q

StructNode(p) ==
    p \in DOMAIN nodes /\ nodes[p].kind = "object" /\ go[nodes[p].of].kind = "struct"

\* An array or a map, and the step into it.
Listed(p) ==
    p \in DOMAIN nodes /\ nodes[p].kind \in {"object", "array"} /\ go[nodes[p].of].kind # "struct"

Into(p) == IF nodes[p].kind = "object" THEN Values ELSE Items

\* The types a type points to, itself included.
Under(t) == Reached({t}, Pointed)

\* A path is owed a schema of a type, now or when the calls above have returned.
Owed(q, t) ==
    /\ q \in DOMAIN nodes \/ Coming(q)
    /\ \A c \in Calls : c.do = "of" /\ c.path = q => c.type \in Under(t) /\ (c.type = t \/ Waits(q))
    /\ q \in DOMAIN nodes =>
          /\ nodes[q].of \in Pointees(t)
          /\ Waits(q) \/ (nodes[q].null <=> go[t].kind = "pointer" /\ nodes[q].kind # "any")
    /\ Waits(q) => go[t].kind = "pointer"

NodesFit ==
    \A p \in DOMAIN nodes :
       /\ nodes[p].kind = "array" => go[nodes[p].of].kind # "struct"
       /\ nodes[p].kind = "ref" => Named(nodes[p].of)

OnlyInnermost == \A c \in Below : c.do # "of"

Unwritten == \A c \in Calls : c.do = "of" => c.path \notin DOMAIN nodes

NullablesKnown ==
    \A c \in Calls : c.do = "nullable" => c.path \in DOMAIN nodes \/ Coming(c.path)

\* A node hangs from the object or the array it is part of.
Leads(p, s) ==
    \/ StructNode(p) /\ Append(p, s) \in seen
                     /\ s \in {f.property : f \in WrittenFields(nodes[p].of)}
    \/ Listed(p) /\ s = Into(p)

Hangs(q) == q = <<>> \/ \E p \in DOMAIN nodes, s \in Step : q = Append(p, s) /\ Leads(p, s)

Rooted ==
    /\ \A q \in DOMAIN nodes : Hangs(q)
    /\ \A c \in Calls : c.do = "of" => Hangs(c.path)

FieldsOfParts ==
    \A c \in Calls : c.do = "fields" => StructNode(c.path) /\ c.type \in Parts(nodes[c.path].of)

ElementsOwed == \A p \in DOMAIN nodes : Listed(p) => Owed(Append(p, Into(p)), go[nodes[p].of].elem)

\* A call of fields has the field before it, or an embedded struct it is promoted from.
Reaches(c, place) ==
    \/ c.type = place[1] /\ c.next <= place[2]
    \/ \E m \in DOMAIN go[c.type].fields :
          /\ c.next <= m /\ Promotes(go[c.type].fields[m])
          /\ place[1] \in Parts(Inner(go[c.type].fields[m]))

Ahead(p, place) == \E c \in Calls : c.do = "fields" /\ c.path = p /\ Reaches(c, place)

Settled(p, f) ==
    LET q == Append(p, f.property)
    IN  /\ q \in seen
        /\ Owed(q, f.type)
        /\ q \in required <=> ~f.optional

FieldsOwed ==
    \A p \in DOMAIN nodes : StructNode(p) =>
        \A place \in PlacesOf(nodes[p].of) : Ahead(p, place) \/ Settled(p, FieldAt(place))

Shape ==
    /\ OnlyInnermost /\ Unwritten /\ NullablesKnown /\ NodesFit /\ Rooted /\ FieldsOfParts
    /\ required \subseteq seen
    /\ models[index].name \notin DOMAIN out
    /\ Owed(<<>>, models[index].type) /\ ElementsOwed /\ FieldsOwed

ShapeInv == at = "derive" => Shape

-----------------------------------------------------------------------------
(* Least sets *)

\* A type points to itself, and on to what it is a pointer to.
LEMMA UnderPointers ==
    ASSUME input \in Inputs, NEW t
    PROVE  /\ t \in Types => t \in Under(t)
           /\ \A u \in Under(t) : go[u].kind = "pointer" => go[u].elem \in Under(t)
           /\ \A u \in Under(t) : go[u].kind # "pointer" => u \in Pointees(t)
<1>1. t \in Types => t \in Under(t)
  BY DEF Under, Reached
<1>2. ASSUME NEW u \in Under(t), go[u].kind = "pointer" PROVE go[u].elem \in Under(t)
  <2>1. u \in Types
    BY DEF Under, Reached
  <2>2. go[u].elem \in Types /\ go[u].elem \in Pointed(u)
    BY <1>2, <2>1, InputTypes DEF Pointed
  <2>3. ASSUME NEW S \in SUBSET Types, {t} \subseteq S, \A v \in S : Pointed(v) \subseteq S
        PROVE  go[u].elem \in S
    BY <2>2, <2>3 DEF Under, Reached
  <2> QED BY <2>2, <2>3 DEF Under, Reached
<1>3. \A u \in Under(t) : go[u].kind # "pointer" => u \in Pointees(t)
  BY DEF Under, Pointees
<1> QED BY <1>1, <1>2, <1>3

\* A struct is part of itself.
LEMMA PartOfItself ==
    ASSUME NEW t \in Types
    PROVE  t \in Parts(t)
BY DEF Parts, Reached

\* What a part promotes the fields of is a part.
LEMMA PromotedPart ==
    ASSUME input \in Inputs, NEW t, NEW s \in Parts(t), NEW m \in DOMAIN go[s].fields,
           Promotes(go[s].fields[m]), Inner(go[s].fields[m]) \in Types
    PROVE  Inner(go[s].fields[m]) \in Parts(t)
<1> DEFINE w == Inner(go[s].fields[m])
<1>1. w \in Promoted(s)
  BY DEF Promoted, FieldsOf
<1> HIDE DEF w
<1>2. ASSUME NEW S \in SUBSET Types, {t} \subseteq S, \A v \in S : Promoted(v) \subseteq S
      PROVE  w \in S
  <2>1. s \in S
    BY <1>2 DEF Parts, Reached
  <2> QED BY <1>1, <1>2, <2>1
<1>3. w \in Types
  BY DEF w
<1>4. w \in Parts(t)
  BY <1>2, <1>3 DEF Parts, Reached
<1> QED BY <1>4 DEF w

\* A part other than the struct itself is part of a struct it embeds.
LEMMA PartByEmbedding ==
    ASSUME input \in Inputs, NEW t \in Types, NEW s \in Parts(t)
    PROVE  \/ s = t
           \/ \E m \in DOMAIN go[t].fields :
                 Promotes(go[t].fields[m]) /\ s \in Parts(Inner(go[t].fields[m]))
<1> DEFINE S == {u \in Types : u = t \/ \E w \in Promoted(t) : u \in Parts(w)}
<1>1. S \in SUBSET Types /\ {t} \subseteq S
  OBVIOUS
<1>2. ASSUME NEW v \in S, NEW w \in Promoted(v)
      PROVE  w \in S
  <2>1. v \in Types
    OBVIOUS
  <2>2. go[v].fields \in Seq(Field)
    BY <2>1, InputTypes DEF GoType
  <2>3. PICK m \in DOMAIN go[v].fields : Promotes(go[v].fields[m]) /\ w = Inner(go[v].fields[m])
    BY <1>2 DEF Promoted, FieldsOf
  <2>4. w \in Types
    <3>1. go[v].fields[m] \in Field
      <4> HIDE DEF Field
      <4> QED BY <2>2, <2>3
    <3> QED BY <2>3, <3>1, InnerType
  <2>5. CASE v = t
    <3>1. w \in Parts(w)
      BY <2>4, PartOfItself
    <3> QED BY <1>2, <2>4, <2>5, <3>1
  <2>6. CASE v # t
    <3>1. PICK x \in Promoted(t) : v \in Parts(x)
      BY <2>6
    <3>2. w \in Parts(x)
      BY <2>3, <2>4, <3>1, PromotedPart
    <3> QED BY <2>4, <3>1, <3>2
  <2> QED BY <2>5, <2>6
<1> HIDE DEF S
<1>3. s \in S
  BY <1>1, <1>2 DEF Parts, Reached
<1>4. CASE s = t
  BY <1>4
<1>5. CASE s # t
  BY <1>3, <1>5 DEF S, Promoted, FieldsOf
<1> QED BY <1>4, <1>5

\* What is said of the types does not change.
LEMMA SameTypes ==
    ASSUME input' = input
    PROVE  /\ go' = go /\ models' = models
           /\ \A t : Under(t)' = Under(t) /\ Pointees(t)' = Pointees(t)
           /\ \A t : Parts(t)' = Parts(t) /\ PlacesOf(t)' = PlacesOf(t)
           /\ \A t : WrittenFields(t)' = WrittenFields(t) /\ Named(t)' = Named(t)
           /\ \A place : FieldAt(place)' = FieldAt(place)
           /\ \A f : Promotes(f)' = Promotes(f) /\ Inner(f)' = Inner(f)
           /\ \A c, place : Reaches(c, place)' = Reaches(c, place)
<1>1. go' = go /\ models' = models
  BY DEF go, models
<1>2. \A t : Under(t)' = Under(t) /\ Pointees(t)' = Pointees(t)
  BY <1>1 DEF Under, Pointees, Reached, Pointed
<1>3. \A f : Promotes(f)' = Promotes(f) /\ Inner(f)' = Inner(f)
  BY <1>1 DEF Promotes, Inner
<1>4. \A t : Promoted(t)' = Promoted(t)
  BY <1>1 DEF Promoted, FieldsOf, Promotes, Inner
<1>5. \A u : Parts(u)' = Parts(u)
  BY <1>4 DEF Parts, Reached
<1>6. \A t : PlacesOf(t)' = PlacesOf(t)
  BY <1>1, <1>3, <1>5 DEF PlacesOf, Writes
<1>7. \A place : FieldAt(place)' = FieldAt(place)
  BY <1>1 DEF FieldAt
<1>8. \A t : WrittenFields(t)' = WrittenFields(t)
  BY <1>6, <1>7 DEF WrittenFields
<1>9. \A t : Named(t)' = Named(t)
  BY <1>1 DEF Named
<1>10. \A c, place : Reaches(c, place)' = Reaches(c, place)
  BY <1>1, <1>3, <1>5 DEF Reaches
<1> QED BY <1>1, <1>2, <1>3, <1>5, <1>6, <1>7, <1>8, <1>9, <1>10

-----------------------------------------------------------------------------
(* Calls *)

\* The calls after a step: the innermost is replaced by the new ones.
LEMMA CallsAfter ==
    ASSUME stack \in Seq(Frame), stack # <<>>, OnlyInnermost,
           NEW frames \in Seq(Frame), Become(frames),
           \A j \in DOMAIN frames : frames[j].do = "of" => j = Len(frames)
    PROVE  /\ Calls = Below \cup {Top}
           /\ Calls' = Below \cup {frames[j] : j \in DOMAIN frames}
           /\ OnlyInnermost'
<1>1. /\ stack' \in Seq(Frame) /\ Len(stack) \in Nat \ {0} /\ Len(frames) \in Nat
      /\ Len(stack') = Len(stack) - 1 + Len(frames)
      /\ \A i \in DOMAIN stack' :
            \/ i < Len(stack) /\ i \in DOMAIN stack /\ stack'[i] = stack[i]
            \/ \E j \in DOMAIN frames : i = Len(stack) - 1 + j /\ stack'[i] = frames[j]
      /\ \A j \in DOMAIN frames : stack'[Len(stack) - 1 + j] = frames[j]
  <2> HIDE DEF Frame
  <2> QED BY BecomeFrames
<1>2. DOMAIN stack = 1 .. Len(stack) /\ DOMAIN stack' = 1 .. Len(stack')
         /\ DOMAIN frames = 1 .. Len(frames)
  BY <1>1, LenProperties
<1>3. Calls = Below \cup {Top}
  <2>1. DOMAIN stack = (1 .. Len(stack) - 1) \cup {Len(stack)}
    BY <1>1, <1>2
  <2>2. Calls = {stack[i] : i \in 1 .. Len(stack) - 1} \cup {stack[Len(stack)]}
    BY <2>1 DEF Calls
  <2> QED BY <2>2 DEF Below, Top
<1>4. ASSUME NEW i \in 1 .. Len(stack) - 1
      PROVE  i \in DOMAIN stack' /\ stack'[i] = stack[i]
  <2>1. i \in DOMAIN stack'
    BY <1>1, <1>2
  <2>2. \A j \in DOMAIN frames : i # Len(stack) - 1 + j
    BY <1>1, <1>2
  <2> QED BY <1>1, <2>1, <2>2
<1>5. Below \subseteq Calls'
  BY <1>4 DEF Below, Calls
<1>6. ASSUME NEW j \in DOMAIN frames
      PROVE  frames[j] \in Calls'
  <2>1. Len(stack) - 1 + j \in DOMAIN stack'
    BY <1>1, <1>2
  <2> QED BY <1>1, <2>1 DEF Calls
<1>7. ASSUME NEW i \in DOMAIN stack'
      PROVE  stack'[i] \in Below \cup {frames[j] : j \in DOMAIN frames}
  <2>1. CASE i < Len(stack) /\ i \in DOMAIN stack /\ stack'[i] = stack[i]
    <3>1. i \in 1 .. Len(stack) - 1
      BY <1>1, <1>2, <2>1
    <3> QED BY <2>1, <3>1 DEF Below
  <2>2. CASE \E j \in DOMAIN frames : i = Len(stack) - 1 + j /\ stack'[i] = frames[j]
    BY <2>2
  <2> QED BY <1>1, <2>1, <2>2
<1>8. Calls' = Below \cup {frames[j] : j \in DOMAIN frames}
  BY <1>5, <1>6, <1>7 DEF Calls
<1>9. ASSUME NEW i \in 1 .. Len(stack') - 1
      PROVE  stack'[i].do # "of"
  <2>0. i \in DOMAIN stack'
    BY <1>1, <1>2
  <2>1. CASE i < Len(stack) /\ i \in DOMAIN stack /\ stack'[i] = stack[i]
    <3>1. i \in 1 .. Len(stack) - 1
      BY <1>1, <1>2, <2>1
    <3> QED BY <2>1, <3>1 DEF Below, OnlyInnermost
  <2>2. CASE \E j \in DOMAIN frames : i = Len(stack) - 1 + j /\ stack'[i] = frames[j]
    <3>1. PICK j \in DOMAIN frames : i = Len(stack) - 1 + j /\ stack'[i] = frames[j]
      BY <2>2
    <3>2. j # Len(frames)
      BY <1>1, <1>2, <3>1
    <3> QED BY <3>1, <3>2
  <2> QED BY <1>1, <2>0, <2>1, <2>2
<1>10. OnlyInnermost'
  BY <1>9 DEF OnlyInnermost, Below
<1> QED BY <1>3, <1>8, <1>10

\* A step of deriver as it is seen by the lemmas below: these calls take the innermost's place.
Goes(new) ==
    /\ Calls = Below \cup {Top} /\ Calls' = Below \cup new
    /\ OnlyInnermost /\ OnlyInnermost'

LEMMA GoesOn ==
    ASSUME stack \in Seq(Frame), stack # <<>>, OnlyInnermost
    PROVE  /\ Become(<<>>) => Goes({})
           /\ \A f \in Frame : Become(<<f>>) => Goes({f})
           /\ \A f, g \in Frame : f.do # "of" /\ Become(<<f, g>>) => Goes({f, g})
<1>1. ASSUME Become(<<>>) PROVE Goes({})
  <2> DEFINE frames == <<>>
  <2>1. frames \in Seq(Frame) /\ DOMAIN frames = {} /\ Become(frames)
    BY <1>1
  <2> HIDE DEF frames, Frame
  <2>2. {frames[j] : j \in DOMAIN frames} = {}
    BY <2>1
  <2> QED BY <2>1, <2>2, CallsAfter DEF Goes
<1>2. ASSUME NEW f \in Frame, Become(<<f>>) PROVE Goes({f})
  <2> DEFINE frames == <<f>>
  <2> HIDE DEF Frame
  <2>1. /\ frames \in Seq(Frame) /\ DOMAIN frames = {1} /\ Become(frames)
        /\ Len(frames) = 1 /\ frames[1] = f
    BY <1>2
  <2> HIDE DEF frames
  <2>2. {frames[j] : j \in DOMAIN frames} = {f}
    BY <2>1
  <2>3. \A j \in DOMAIN frames : frames[j].do = "of" => j = Len(frames)
    BY <2>1
  <2> QED BY <2>1, <2>2, <2>3, CallsAfter DEF Goes
<1>3. ASSUME NEW f \in Frame, NEW g \in Frame, f.do # "of", Become(<<f, g>>) PROVE Goes({f, g})
  <2> DEFINE frames == <<f, g>>
  <2> HIDE DEF Frame
  <2>1. /\ frames \in Seq(Frame) /\ DOMAIN frames = {1, 2} /\ Become(frames)
        /\ Len(frames) = 2 /\ frames[1] = f /\ frames[2] = g
    BY <1>3
  <2> HIDE DEF frames
  <2>2. {frames[j] : j \in DOMAIN frames} = {f, g}
    BY <2>1
  <2>3. \A j \in DOMAIN frames : frames[j].do = "of" => j = Len(frames)
    BY <1>3, <2>1
  <2> QED BY <2>1, <2>2, <2>3, CallsAfter DEF Goes
<1> HIDE DEF Frame
<1> QED BY <1>1, <1>2, <1>3

\* Paths part where their last steps do.
LEMMA LastStep ==
    ASSUME NEW p \in Seq(Step), NEW q \in Seq(Step), NEW r \in Step, NEW s \in Step,
           Append(p, r) = Append(q, s)
    PROVE  p = q /\ r = s
<1> HIDE DEF Step
<1> DEFINE a == Append(p, r)
<1> DEFINE b == Append(q, s)
<1>1. /\ Len(p) \in Nat /\ Len(q) \in Nat
      /\ Len(a) = Len(p) + 1 /\ Len(b) = Len(q) + 1
      /\ \A i \in 1 .. Len(p) : a[i] = p[i]
      /\ \A i \in 1 .. Len(q) : b[i] = q[i]
      /\ a[Len(p) + 1] = r /\ b[Len(q) + 1] = s
  BY LenProperties, AppendProperties
<1>2. a = b
  OBVIOUS
<1> HIDE DEF a, b
<1>3. Len(p) = Len(q)
  BY <1>1, <1>2
<1>4. r = s
  BY <1>1, <1>2, <1>3
<1>5. \A i \in 1 .. Len(p) : p[i] = q[i]
  BY <1>1, <1>2, <1>3
<1>6. p = q
  BY <1>3, <1>5, SeqEqual
<1> QED BY <1>4, <1>6

-----------------------------------------------------------------------------
(* Steps of fields, and ends of calls: no node changes *)

\* The calls of nullable are as many.
LEMMA SameWaits ==
    ASSUME NEW new, Goes(new), Top.do # "nullable", \A c \in new : c.do # "nullable", NEW q
    PROVE  Waits(q)' <=> Waits(q)
BY DEF Goes, Waits

LEMMA QuietOwed ==
    ASSUME NEW new, Goes(new), input' = input, nodes' = nodes, Top.do \notin {"of", "nullable"},
           \A c \in new : c.do # "nullable",
           \A c \in new : c.do = "of" => c.path \notin DOMAIN nodes,
           NEW q, NEW t, Owed(q, t)
    PROVE  Owed(q, t)'
<1>1. ~Coming(q) /\ q \in DOMAIN nodes
  BY DEF Owed, Coming, Goes, OnlyInnermost
<1>2. ASSUME NEW c \in Calls', c.do = "of" PROVE c.path # q
  BY <1>1, <1>2 DEF Goes, OnlyInnermost
<1>3. Waits(q)' <=> Waits(q)
  BY SameWaits
<1> QED BY <1>1, <1>2, <1>3, SameTypes DEF Owed

\* A field whose properties these are was settled, and stays so.
LEMMA StaysSettled ==
    ASSUME NEW p, NEW f, Settled(p, f), Owed(Append(p, f.property), f.type)',
           seen \subseteq seen', required \subseteq required', required' \cap seen \subseteq required
    PROVE  Settled(p, f)'
BY DEF Settled

\* Nothing is taken from the nodes.
LEMMA StillHangs ==
    ASSUME NEW q, Hangs(q), input' = input, seen \subseteq seen',
           DOMAIN nodes \subseteq DOMAIN nodes',
           \A p \in DOMAIN nodes : nodes'[p].kind = nodes[p].kind /\ nodes'[p].of = nodes[p].of
    PROVE  Hangs(q)'
<1>1. CASE q = <<>>
  BY <1>1 DEF Hangs
<1>2. CASE \E p \in DOMAIN nodes, s \in Step : q = Append(p, s) /\ Leads(p, s)
  <2>1. PICK p \in DOMAIN nodes, s \in Step : q = Append(p, s) /\ Leads(p, s)
    BY <1>2
  <2>2. p \in DOMAIN nodes' /\ nodes'[p].kind = nodes[p].kind /\ nodes'[p].of = nodes[p].of
    BY <2>1
  <2>3. WrittenFields(nodes[p].of)' = WrittenFields(nodes'[p].of) /\ go' = go
    BY SameTypes
  <2>4. Leads(p, s)'
    <3>1. CASE StructNode(p) /\ Append(p, s) \in seen
                             /\ s \in {f.property : f \in WrittenFields(nodes[p].of)}
      <4>1. StructNode(p)'
        BY <3>1, <2>2, <2>3 DEF StructNode
      <4>2. s \in {f.property : f \in WrittenFields(nodes[p].of)'}
        BY <3>1, SameTypes
      <4> QED BY <3>1, <4>1, <4>2, <2>2 DEF Leads
    <3>2. CASE Listed(p) /\ s = Into(p)
      BY <3>2, <2>2, <2>3 DEF Leads, Listed, Into
    <3> QED BY <2>1, <3>1, <3>2 DEF Leads
  <2> QED BY <2>1, <2>2, <2>4 DEF Hangs
<1> QED BY <1>1, <1>2 DEF Hangs

\* A step that leaves the nodes alone: no field the innermost call had ahead is forgotten.
Advances(new) ==
    /\ Goes(new) /\ UNCHANGED locals /\ nodes' = nodes /\ Top.do \notin {"of", "nullable"}
    /\ seen \subseteq seen' /\ required \subseteq required'
    /\ required' \subseteq seen' /\ required' \cap seen \subseteq required
    /\ \A c \in new :
          /\ c.do # "nullable"
          /\ c.do = "of" => c.path \notin DOMAIN nodes /\ Hangs(c.path)'
          /\ c.do = "fields" => StructNode(c.path) /\ c.type \in Parts(nodes[c.path].of)
    /\ \A p \in DOMAIN nodes : StructNode(p) => \A place \in PlacesOf(nodes[p].of) :
          Top.do = "fields" /\ Top.path = p /\ Reaches(Top, place) =>
             \/ \E c \in new : c.do = "fields" /\ c.path = p /\ Reaches(c, place)
             \/ Settled(p, FieldAt(place))'

LEMMA QuietShape ==
    ASSUME Shape, NEW new, Advances(new)
    PROVE  Shape'
<1> USE DEF Advances
<1>0. input' = input /\ index' = index /\ out' = out /\ go' = go /\ models' = models
  BY SameTypes DEF locals
<1>1. \A q, t : Owed(q, t) => Owed(q, t)'
  BY <1>0, QuietOwed
<1>2. \A p : (StructNode(p)' <=> StructNode(p)) /\ (Listed(p)' <=> Listed(p)) /\ Into(p)' = Into(p)
  BY <1>0 DEF StructNode, Listed, Into
<1>3. OnlyInnermost' /\ Unwritten'
  BY DEF Goes, Unwritten, OnlyInnermost
<1>4. NullablesKnown'
  <2>1. \A c \in Below : c.do = "nullable" => c.path \in DOMAIN nodes
    BY DEF Shape, NullablesKnown, Coming, Goes, OnlyInnermost
  <2> QED BY <2>1 DEF NullablesKnown, Goes
<1>5. NodesFit'
  BY <1>0, SameTypes DEF Shape, NodesFit
<1>6. Rooted'
  <2>1. \A q : Hangs(q) => Hangs(q)'
    BY <1>0, StillHangs
  <2> QED BY <2>1 DEF Shape, Rooted, Goes, OnlyInnermost
<1>7. FieldsOfParts'
  <2>1. \A t : Parts(t)' = Parts(t)
    BY <1>0, SameTypes
  <2>2. \A c \in Calls' : c.do = "fields" => StructNode(c.path) /\ c.type \in Parts(nodes[c.path].of)
    BY DEF Shape, FieldsOfParts, Goes
  <2> QED BY <1>2, <2>1, <2>2 DEF FieldsOfParts
<1>8. Owed(<<>>, models[index].type)'
  BY <1>0, <1>1 DEF Shape
<1>9. ElementsOwed'
  BY <1>0, <1>1, <1>2 DEF Shape, ElementsOwed
<1>10. FieldsOwed'
  <2> SUFFICES ASSUME NEW p \in DOMAIN nodes, StructNode(p), NEW place \in PlacesOf(nodes[p].of)
               PROVE  Ahead(p, place)' \/ Settled(p, FieldAt(place))'
    BY <1>0, <1>2, SameTypes DEF FieldsOwed
  <2>1. CASE Settled(p, FieldAt(place))
    BY <2>1, <1>1, StaysSettled, SameTypes, <1>0 DEF Settled
  <2>2. CASE Ahead(p, place)
    <3>1. PICK c \in Calls : c.do = "fields" /\ c.path = p /\ Reaches(c, place)
      BY <2>2 DEF Ahead
    <3>2. CASE c \in Below
      BY <3>1, <3>2, <1>0, SameTypes DEF Ahead, Goes
    <3>3. CASE c = Top
      <4>1. CASE \E d \in new : d.do = "fields" /\ d.path = p /\ Reaches(d, place)
        BY <4>1, <1>0, SameTypes DEF Ahead, Goes
      <4> QED BY <3>1, <3>3, <4>1
    <3> QED BY <3>1, <3>2, <3>3 DEF Goes
  <2> QED BY <2>1, <2>2 DEF Shape, FieldsOwed
<1>11. required' \subseteq seen' /\ models'[index'].name \notin DOMAIN out'
  BY <1>0 DEF Shape
<1> QED BY <1>3, <1>4, <1>5, <1>6, <1>7, <1>8, <1>9, <1>10, <1>11 DEF Shape

-----------------------------------------------------------------------------
(* Steps of "of": a node is written at the path of the innermost call *)

LEMMA WrittenOwed ==
    ASSUME NEW new, Goes(new), input' = input, Unwritten, Top.do = "of",
           go[Top.type].kind # "pointer",
           NEW node, Put(Top.path, node), node.of = Top.type, node.null = FALSE,
           \A c \in new : c.do # "nullable",
           \A c \in new : c.do = "of" => c.path \notin DOMAIN nodes /\ c.path # Top.path,
           NEW q, NEW t, Owed(q, t)
    PROVE  Owed(q, t)'
<1>1. /\ Top \in Calls /\ Top.path \notin DOMAIN nodes
      /\ DOMAIN nodes' = DOMAIN nodes \cup {Top.path} /\ nodes'[Top.path] = node
      /\ \A p \in DOMAIN nodes : nodes'[p] = nodes[p]
  BY DEF Goes, Unwritten, Put
<1>2. Waits(q)' <=> Waits(q)
  BY SameWaits
<1>3. q \in DOMAIN nodes'
  BY <1>1 DEF Owed, Coming, Goes, OnlyInnermost
<1>4. \A c \in Calls' : c.do = "of" => c.path # q
  BY <1>1, <1>3 DEF Goes, OnlyInnermost
<1>5. /\ nodes'[q].of \in Pointees(t)
      /\ Waits(q) \/ (nodes'[q].null <=> go[t].kind = "pointer" /\ nodes'[q].kind # "any")
  <2>1. CASE q = Top.path
    <3>1. Top.type \in Under(t) /\ (Top.type = t \/ Waits(q))
      BY <1>1, <2>1 DEF Owed
    <3>2. Top.type \in Pointees(t)
      BY <3>1 DEF Under, Pointees
    <3> QED BY <1>1, <2>1, <3>1, <3>2
  <2>2. CASE q # Top.path
    BY <1>1, <1>3, <2>2 DEF Owed
  <2> QED BY <2>1, <2>2
<1> QED BY <1>2, <1>3, <1>4, <1>5, SameTypes DEF Owed

\* A call of "of" for a type writes a node at a path, and goes on with the new calls.
WritesNode(path, t, node, new) ==
    /\ Goes(new) /\ UNCHANGED <<locals, seen, required>>
    /\ Top.do = "of" /\ Top.path = path /\ Top.type = t /\ go[t].kind # "pointer"
    /\ Put(path, node) /\ node.of = t /\ node.null = FALSE
    /\ node.kind = "array" => go[t].kind # "struct"
    /\ node.kind = "ref" => Named(t)
    /\ \A c \in new :
          /\ c.do # "nullable"
          /\ c.do = "of" => c.path \notin DOMAIN nodes /\ c.path # path /\ Hangs(c.path)'
          /\ c.do = "fields" => c.path = path /\ c.type \in Parts(t) /\ StructNode(path)'
    /\ Listed(path)' => Owed(Append(path, Into(path)), go[t].elem)'
    /\ StructNode(path)' => \A place \in PlacesOf(t) :
          \E c \in new : c.do = "fields" /\ c.path = path /\ Reaches(c, place)

LEMMA WrittenShape ==
    ASSUME Shape, NEW path, NEW t, NEW node, NEW new, WritesNode(path, t, node, new)
    PROVE  Shape'
<1> USE DEF WritesNode
<1>0. /\ input' = input /\ index' = index /\ out' = out /\ go' = go /\ models' = models
      /\ seen' = seen /\ required' = required
  BY SameTypes DEF locals
<1>1. /\ Top \in Calls /\ path \notin DOMAIN nodes
      /\ DOMAIN nodes' = DOMAIN nodes \cup {path} /\ nodes'[path] = node
      /\ \A p \in DOMAIN nodes : nodes'[p] = nodes[p]
  BY DEF Goes, Shape, Unwritten, Put
<1>2. \A q, u : Owed(q, u) => Owed(q, u)'
  BY <1>0, WrittenOwed DEF Shape
<1>3. \A p \in DOMAIN nodes : /\ p # path /\ nodes'[p] = nodes[p]
                              /\ StructNode(p)' <=> StructNode(p)
                              /\ Listed(p)' <=> Listed(p)
                              /\ Into(p)' = Into(p)
  BY <1>0, <1>1 DEF StructNode, Listed, Into
<1>4. OnlyInnermost'
  BY DEF Goes
<1>5. Unwritten'
  BY <1>1 DEF Goes, Unwritten, OnlyInnermost
<1>6. NullablesKnown'
  <2>1. \A c \in Below : c.do = "nullable" => c.path \in DOMAIN nodes'
    BY <1>1 DEF Shape, NullablesKnown, Coming, Goes, OnlyInnermost
  <2> QED BY <2>1 DEF NullablesKnown, Goes
<1>7. NodesFit'
  BY <1>0, <1>1, SameTypes DEF Shape, NodesFit
<1>8. Rooted'
  <2>1. \A q : Hangs(q) => Hangs(q)'
    BY <1>0, <1>1, StillHangs
  <2>2. \A q \in DOMAIN nodes' : Hangs(q)
    BY <1>1 DEF Shape, Rooted
  <2> QED BY <2>1, <2>2 DEF Rooted, Goes, OnlyInnermost
<1>9. FieldsOfParts'
  <2>1. \A u : Parts(u)' = Parts(u)
    BY <1>0, SameTypes
  <2>2. ASSUME NEW c \in Calls', c.do = "fields"
        PROVE  StructNode(c.path)' /\ c.type \in Parts(nodes'[c.path].of)
    <3>1. CASE c \in Below
      <4>1. StructNode(c.path) /\ c.type \in Parts(nodes[c.path].of)
        BY <2>2, <3>1 DEF Shape, FieldsOfParts, Goes
      <4>2. c.path \in DOMAIN nodes
        BY <4>1 DEF StructNode
      <4> QED BY <1>3, <4>1, <4>2
    <3>2. CASE c \in new
      BY <1>1, <2>2, <3>2
    <3> QED BY <3>1, <3>2 DEF Goes
  <2> QED BY <2>1, <2>2 DEF FieldsOfParts
<1>10. Owed(<<>>, models[index].type)'
  BY <1>0, <1>2 DEF Shape
<1>11. ElementsOwed'
  <2> SUFFICES ASSUME NEW p \in DOMAIN nodes', Listed(p)'
               PROVE  Owed(Append(p, Into(p)), go[nodes[p].of].elem)'
    BY DEF ElementsOwed
  <2>1. CASE p = path
    BY <1>0, <1>1, <2>1
  <2>2. CASE p \in DOMAIN nodes
    <3>1. Owed(Append(p, Into(p)), go[nodes[p].of].elem)
      BY <1>3, <2>2 DEF Shape, ElementsOwed
    <3> QED BY <1>0, <1>2, <1>3, <2>2, <3>1
  <2> QED BY <1>1, <2>1, <2>2
<1>12. FieldsOwed'
  <2> SUFFICES ASSUME NEW p \in DOMAIN nodes', StructNode(p)', NEW place \in PlacesOf(nodes'[p].of)
               PROVE  Ahead(p, place)' \/ Settled(p, FieldAt(place))'
    BY <1>0, SameTypes DEF FieldsOwed
  <2>1. CASE p = path
    BY <1>0, <1>1, <2>1, SameTypes DEF Ahead, Goes
  <2>2. CASE p \in DOMAIN nodes
    <3>1. Ahead(p, place) \/ Settled(p, FieldAt(place))
      BY <1>3, <2>2 DEF Shape, FieldsOwed
    <3>2. CASE Settled(p, FieldAt(place))
      BY <1>0, <1>2, <3>2, StaysSettled, SameTypes DEF Settled
    <3>3. CASE Ahead(p, place)
      BY <1>0, <3>3, SameTypes DEF Ahead, Goes
    <3> QED BY <3>1, <3>2, <3>3
  <2> QED BY <1>1, <2>1, <2>2
<1>13. required' \subseteq seen' /\ models'[index'].name \notin DOMAIN out'
  BY <1>0 DEF Shape
<1> QED BY <1>4, <1>5, <1>6, <1>7, <1>8, <1>9, <1>10, <1>11, <1>12, <1>13 DEF Shape

-----------------------------------------------------------------------------
(* Pointers *)

\* A pointer's call becomes the call for what it points to, and one that waits for it.
LEMMA PointerOwed ==
    ASSUME input \in Inputs, input' = input, nodes' = nodes, Unwritten, Top.do = "of",
           go[Top.type].kind = "pointer",
           NEW f, NEW g, Goes({f, g}), f.do = "nullable", f.path = Top.path, g.do = "of",
           g.path = Top.path, g.type = go[Top.type].elem,
           NEW q, NEW t, Owed(q, t)
    PROVE  Owed(q, t)'
<1>1. Top \in Calls /\ Top.path \notin DOMAIN nodes
  BY DEF Goes, Unwritten
<1>2. CASE q = Top.path
  <2>1. Top.type \in Under(t) /\ (Top.type = t \/ Waits(q))
    BY <1>1, <1>2 DEF Owed
  <2>2. g.type \in Under(t)
    BY <2>1, UnderPointers
  <2>3. Waits(q)' /\ Coming(q)'
    BY <1>2 DEF Waits, Coming, Goes
  <2>4. go[t].kind = "pointer"
    BY <2>1 DEF Owed
  <2>5. \A c \in Calls' : c.do = "of" => c = g
    BY DEF Goes, OnlyInnermost
  <2> QED BY <1>1, <1>2, <2>2, <2>3, <2>4, <2>5, SameTypes DEF Owed
<1>3. CASE q # Top.path
  <2>1. Waits(q)' <=> Waits(q)
    BY <1>3 DEF Waits, Goes
  <2>2. q \in DOMAIN nodes
    BY <1>3 DEF Owed, Coming, Goes, OnlyInnermost
  <2>3. \A c \in Calls' : c.do = "of" => c.path # q
    BY <1>3 DEF Goes, OnlyInnermost
  <2> QED BY <2>1, <2>2, <2>3, SameTypes DEF Owed
<1> QED BY <1>2, <1>3

\* A node is made nullable: of the calls that wait for it one less remains.
LEMMA NullableOwed ==
    ASSUME input' = input, Goes({}), Top.do = "nullable", Top.path \in DOMAIN nodes,
           DOMAIN nodes' = DOMAIN nodes,
           \A p \in DOMAIN nodes : p # Top.path => nodes'[p] = nodes[p],
           nodes'[Top.path].of = nodes[Top.path].of,
           nodes'[Top.path].kind = nodes[Top.path].kind,
           nodes'[Top.path].null = (nodes[Top.path].kind # "any"),
           NEW q, NEW t, Owed(q, t)
    PROVE  Owed(q, t)'
<1>1. Waits(q)' => Waits(q)
  BY DEF Waits, Goes
<1>2. q # Top.path => (Waits(q)' <=> Waits(q))
  BY DEF Waits, Goes
<1>3. q \in DOMAIN nodes /\ \A c \in Calls' : c.do # "of"
  BY DEF Owed, Coming, Goes, OnlyInnermost
<1>4. nodes'[q].of = nodes[q].of /\ nodes'[q].kind = nodes[q].kind
  BY <1>3
<1>5. Waits(q)' \/ (nodes'[q].null <=> go[t].kind = "pointer" /\ nodes'[q].kind # "any")
  <2>1. CASE q = Top.path
    <3>1. Waits(q)
      BY <2>1 DEF Waits, Goes
    <3>2. go[t].kind = "pointer"
      BY <3>1 DEF Owed
    <3> QED BY <2>1, <3>2
  <2>2. CASE q # Top.path
    BY <1>2, <1>3, <2>2 DEF Owed
  <2> QED BY <2>1, <2>2
<1> QED BY <1>1, <1>3, <1>4, <1>5, SameTypes DEF Owed

\* Neither ends or begins a struct, a field or an array.
LEMMA PointerShape ==
    ASSUME Shape, UNCHANGED <<locals, seen, required>>, NEW new, Goes(new),
           DOMAIN nodes' = DOMAIN nodes,
           \A p \in DOMAIN nodes : nodes'[p].kind = nodes[p].kind /\ nodes'[p].of = nodes[p].of,
           \A q, t : Owed(q, t) => Owed(q, t)',
           Unwritten', NullablesKnown', Top.do # "fields", \A c \in new : c.do # "fields",
           \A c \in new : c.do = "of" => Hangs(c.path)
    PROVE  Shape'
<1>0. /\ input' = input /\ index' = index /\ out' = out /\ go' = go /\ models' = models
      /\ seen' = seen /\ required' = required
  BY SameTypes DEF locals
<1>1. \A p : (StructNode(p)' <=> StructNode(p)) /\ (Listed(p)' <=> Listed(p))
  BY <1>0 DEF StructNode, Listed
<1>2. \A p \in DOMAIN nodes : Into(p)' = Into(p)
  BY DEF Into
<1>3. NodesFit'
  BY <1>0, SameTypes DEF Shape, NodesFit
<1>4. Rooted'
  <2>1. \A q : Hangs(q) => Hangs(q)'
    BY <1>0, StillHangs
  <2> QED BY <2>1 DEF Shape, Rooted, Goes, OnlyInnermost
<1>5. FieldsOfParts'
  <2>1. \A t : Parts(t)' = Parts(t)
    BY <1>0, SameTypes
  <2>2. ASSUME NEW c \in Calls', c.do = "fields"
        PROVE  StructNode(c.path) /\ c.type \in Parts(nodes[c.path].of)
    BY <2>2 DEF Shape, FieldsOfParts, Goes
  <2>3. \A p : StructNode(p) => p \in DOMAIN nodes
    BY DEF StructNode
  <2> QED BY <1>1, <2>1, <2>2, <2>3 DEF FieldsOfParts
<1>6. Owed(<<>>, models[index].type)'
  BY <1>0 DEF Shape
<1>7. ElementsOwed'
  <2> SUFFICES ASSUME NEW p \in DOMAIN nodes, Listed(p)
               PROVE  Owed(Append(p, Into(p)), go[nodes[p].of].elem)'
    BY <1>0, <1>1 DEF ElementsOwed
  <2>1. Owed(Append(p, Into(p)), go[nodes[p].of].elem)
    BY DEF Shape, ElementsOwed
  <2> QED BY <1>0, <1>2, <2>1
<1>8. FieldsOwed'
  <2> SUFFICES ASSUME NEW p \in DOMAIN nodes, StructNode(p), NEW place \in PlacesOf(nodes[p].of)
               PROVE  Ahead(p, place)' \/ Settled(p, FieldAt(place))'
    BY <1>0, <1>1, SameTypes DEF FieldsOwed
  <2>1. CASE Settled(p, FieldAt(place))
    BY <1>0, <2>1, StaysSettled, SameTypes DEF Settled
  <2>2. CASE Ahead(p, place)
    BY <1>0, <2>2, SameTypes DEF Ahead, Goes
  <2> QED BY <2>1, <2>2 DEF Shape, FieldsOwed
<1>9. required' \subseteq seen' /\ models'[index'].name \notin DOMAIN out' /\ OnlyInnermost'
  BY <1>0 DEF Shape, Goes
<1> QED BY <1>3, <1>4, <1>5, <1>6, <1>7, <1>8, <1>9 DEF Shape

-----------------------------------------------------------------------------
(* The shape through the steps of deriver *)

LEMMA ShapedCall ==
    ASSUME ModelSchemasInv, Shape, NEW do, Runs(do)
    PROVE  /\ stack \in Seq(Frame) /\ stack # <<>> /\ OnlyInnermost /\ input \in Inputs
           /\ Top.do = do /\ at = "derive"
           /\ do = "of" => Top.type \in Types /\ Top.path \in Seq(Step)
                              /\ Top.enum \in {"none", "texts", "integers"}
           /\ do = "fields" => Top.type \in Types /\ Top.path \in Seq(Step)
                                  /\ Top.next \in Nat \ {0}
           /\ DOMAIN nodes \subseteq Seq(Step) /\ \A p \in DOMAIN nodes : nodes[p] \in Node
<1> USE AtCall
<1>1. stack \in Seq(Frame) /\ stack # <<>> /\ Top.do = do
  OBVIOUS
<1> QED BY <1>1, TopType DEF Shape, Runs

\* Where the fields of a struct are.
LEMMA PlaceParts ==
    ASSUME NEW t, NEW place
    PROVE  place \in PlacesOf(t) <=>
              \E s \in Parts(t) : \E i \in DOMAIN go[s].fields :
                 Writes(go[s].fields[i]) /\ place = <<s, i>>
BY DEF PlacesOf

LEMMA FieldsIn ==
    ASSUME input \in Inputs, NEW t \in Types
    PROVE  /\ go[t].fields \in Seq(Field) /\ Len(go[t].fields) \in Nat
           /\ DOMAIN go[t].fields = 1 .. Len(go[t].fields)
           /\ \A i \in DOMAIN go[t].fields : go[t].fields[i] \in Field
<1>1. go[t].fields \in Seq(Field)
  BY InputTypes DEF GoType
<1> HIDE DEF Field
<1> QED BY <1>1, LenProperties

\* A call of fields that begins has every field before it, those of embedded structs included.
LEMMA AllAhead ==
    ASSUME input \in Inputs, NEW t \in Types, NEW path, NEW place \in PlacesOf(t)
    PROVE  Reaches(FieldsFrame(t, 1, path), place)
<1> DEFINE c == FieldsFrame(t, 1, path)
<1>1. c.type = t /\ c.next = 1
  BY DEF FieldsFrame
<1> HIDE DEF c
<1>2. PICK s \in Parts(t) : \E i \in DOMAIN go[s].fields : place = <<s, i>>
  BY PlaceParts
<1>3. PICK i \in DOMAIN go[s].fields : place = <<s, i>>
  BY <1>2
<1>4. s \in Types
  BY DEF Parts, Reached
<1>5. i \in Nat /\ 1 <= i
  BY <1>3, <1>4, FieldsIn
<1>6. \A m \in DOMAIN go[t].fields : 1 <= m
  BY FieldsIn
<1>7. place[1] = s /\ place[2] = i
  BY <1>3
<1>8. Reaches(c, place)
  <2>1. CASE s = t
    BY <1>1, <1>5, <1>7, <2>1 DEF Reaches
  <2>2. CASE \E m \in DOMAIN go[t].fields :
                Promotes(go[t].fields[m]) /\ s \in Parts(Inner(go[t].fields[m]))
    BY <1>1, <1>6, <1>7, <2>2 DEF Reaches
  <2> QED BY <2>1, <2>2, PartByEmbedding
<1> QED BY <1>8 DEF c

LEMMA EndShape ==
    ASSUME ModelSchemasInv, Shape, EndElements \/ CloseStruct, ~Refuse
    PROVE  Shape'
<1>1. PICK do \in {"elements", "close"} : Runs(do)
  BY DEF EndElements, CloseStruct
<1>2. Become(<<>>) /\ UNCHANGED <<locals, seen, nodes, required>>
  BY DEF EndElements, CloseStruct
<1>3. Goes({}) /\ Top.do = do
  BY <1>1, <1>2, ShapedCall, GoesOn
<1>4. required' \subseteq seen'
  BY <1>2 DEF Shape
<1>5. Advances({})
  BY <1>1, <1>2, <1>3, <1>4 DEF Advances
<1> QED BY <1>5, QuietShape

LEMMA DereferenceShape ==
    ASSUME ModelSchemasInv, Shape, Dereference
    PROVE  Shape'
<1> DEFINE f == NullableFrame(Top.path)
<1> DEFINE g == OfFrame(go[Top.type].elem, Top.enum, Top.path)
<1>1. /\ Runs("of") /\ go[Top.type].kind = "pointer" /\ Become(<<f, g>>)
      /\ UNCHANGED <<locals, inline, seen, nodes, required>>
  BY DEF Dereference
<1>2. f.do = "nullable" /\ f.path = Top.path /\ g.do = "of" /\ g.path = Top.path
         /\ g.type = go[Top.type].elem
  BY DEF NullableFrame, OfFrame
<1>3. f \in Frame /\ g \in Frame
  <2>1. go[Top.type].elem \in Types
    BY <1>1, ShapedCall, InputTypes
  <2> QED BY <1>1, <2>1, ShapedCall, FrameTypes
<1> HIDE DEF f, g
<1>4. Goes({f, g})
  BY <1>1, <1>2, <1>3, ShapedCall, GoesOn
<1>5. Top.do = "of" /\ Top \in Calls /\ input' = input /\ input \in Inputs /\ Unwritten
  BY <1>1, <1>4, ShapedCall DEF locals, Goes, Shape
<1>6. \A q, u : Owed(q, u) => Owed(q, u)'
  BY <1>1, <1>2, <1>4, <1>5, PointerOwed
<1>7. Unwritten'
  BY <1>1, <1>2, <1>4, <1>5 DEF Unwritten, Goes
<1>8. NullablesKnown'
  <2>1. Coming(Top.path) /\ \A q : Coming(q) => q = Top.path
    BY <1>4, <1>5 DEF Coming, Goes, OnlyInnermost
  <2>2. \A q : q = Top.path => Coming(q)'
    BY <1>2, <1>4 DEF Coming, Goes
  <2>3. \A c \in Calls' : c.do = "nullable" => c.path \in DOMAIN nodes \/ c.path = Top.path
    BY <1>2, <1>4, <2>1 DEF Shape, NullablesKnown, Goes
  <2> QED BY <1>1, <2>2, <2>3 DEF NullablesKnown
<1>9. Hangs(g.path)
  BY <1>2, <1>5 DEF Shape, Rooted
<1> QED BY <1>1, <1>2, <1>4, <1>5, <1>6, <1>7, <1>8, <1>9, PointerShape

LEMMA MakeNullableShape ==
    ASSUME ModelSchemasInv, Shape, MakeNullable
    PROVE  Shape'
<1> DEFINE node == nodes[Top.path]
<1> DEFINE new == [node EXCEPT !.null = (node.kind # "any"),
                               !.repeats = node.repeats \/ (node.enum /\ node.null)]
<1>1. /\ Runs("nullable") /\ Put(Top.path, new) /\ Become(<<>>)
      /\ UNCHANGED <<locals, inline, seen, required>>
  BY DEF MakeNullable
<1>2. Goes({}) /\ Top.do = "nullable"
  BY <1>1, ShapedCall, GoesOn
<1>3. Top.path \in DOMAIN nodes /\ \A c \in Calls : c.do # "of"
  BY <1>2 DEF Shape, NullablesKnown, Coming, Goes, OnlyInnermost
<1>4. node \in Node
  BY <1>1, <1>3, ShapedCall
<1>5. new.of = node.of /\ new.kind = node.kind /\ new.null = (node.kind # "any")
  BY <1>4 DEF Node
<1>6. /\ DOMAIN nodes' = DOMAIN nodes /\ nodes'[Top.path] = new
      /\ \A p \in DOMAIN nodes : p # Top.path => nodes'[p] = nodes[p]
  <2> HIDE DEF new
  <2> QED BY <1>1, <1>3 DEF Put
<1> HIDE DEF new
<1>7. \A p \in DOMAIN nodes : nodes'[p].kind = nodes[p].kind /\ nodes'[p].of = nodes[p].of
  BY <1>5, <1>6
<1>8. \A q, u : Owed(q, u) => Owed(q, u)'
  BY <1>1, <1>2, <1>3, <1>5, <1>6, NullableOwed DEF locals
<1>9. Unwritten' /\ NullablesKnown'
  BY <1>2, <1>3, <1>6 DEF Unwritten, Shape, NullablesKnown, Coming, Goes
<1> QED BY <1>1, <1>2, <1>3, <1>6, <1>7, <1>8, <1>9, PointerShape

\* Refer and WriteScalar write a node that contains nothing.
LEMMA LeafShape ==
    ASSUME ModelSchemasInv, Shape, Runs("of"), go[Top.type].kind # "pointer", Become(<<>>),
           UNCHANGED <<locals, seen, required>>,
           NEW node, Put(Top.path, node), node.of = Top.type, node.null = FALSE,
           node.kind \notin {"object", "array"}, node.kind = "ref" => Named(Top.type)
    PROVE  Shape'
<1>1. Goes({}) /\ Top.do = "of"
  BY ShapedCall, GoesOn
<1> SUFFICES ASSUME NEW path, path = Top.path, NEW t, t = Top.type PROVE Shape'
  OBVIOUS
<1>2. ~Listed(path)' /\ ~StructNode(path)'
  BY DEF Listed, StructNode, Put
<1>3. WritesNode(path, t, node, {})
  BY <1>1, <1>2 DEF WritesNode
<1> QED BY <1>3, WrittenShape

LEMMA ReferShape ==
    ASSUME ModelSchemasInv, Shape, Refer
    PROVE  Shape'
<1> DEFINE node == Written("ref", Top.type)
<1>1. /\ Runs("of") /\ go[Top.type].kind # "pointer" /\ Named(Top.type) /\ Become(<<>>)
      /\ Put(Top.path, node) /\ UNCHANGED <<locals, seen, required>>
  BY DEF Refer
<1>2. node.of = Top.type /\ node.null = FALSE /\ node.kind = "ref"
  BY DEF Written
<1> HIDE DEF node
<1> QED BY <1>1, <1>2, LeafShape

LEMMA WriteScalarShape ==
    ASSUME ModelSchemasInv, Shape, WriteScalar, ~Refuse
    PROVE  Shape'
<1> DEFINE kind == SchemaKind(go[Top.type].kind)
<1> DEFINE node == [Written(kind, Top.type) EXCEPT !.enum = (Top.enum # "none")]
<1>1. /\ Runs("of") /\ go[Top.type].kind \in {"time", "any", "string", "integer", "byte", "other"}
      /\ Put(Top.path, node) /\ Become(<<>>) /\ UNCHANGED <<locals, seen, required>>
  BY DEF WriteScalar, Describes
<1>2. kind \in {"string", "integer", "any", "other"}
  BY <1>1 DEF SchemaKind
<1> HIDE DEF kind
<1>3. node.of = Top.type /\ node.null = FALSE /\ node.kind = kind
  BY DEF Written
<1> HIDE DEF node
<1> QED BY <1>1, <1>2, <1>3, LeafShape

LEMMA EnterStructShape ==
    ASSUME ModelSchemasInv, Shape, EnterStruct, ~Refuse
    PROVE  Shape'
<1> SUFFICES ASSUME NEW path, path = Top.path, NEW t, t = Top.type PROVE Shape'
  OBVIOUS
<1> DEFINE f == CloseFrame(t)
<1> DEFINE g == FieldsFrame(t, 1, path)
<1> DEFINE node == Written("object", t)
<1>1. /\ Runs("of") /\ go[t].kind = "struct" /\ Become(<<f, g>>) /\ Put(path, node)
      /\ UNCHANGED <<locals, seen, required>>
  BY DEF EnterStruct, Describes
<1>2. f.do = "close" /\ g.do = "fields" /\ g.path = path /\ g.type = t
  BY DEF CloseFrame, FieldsFrame
<1>3. t \in Types /\ path \in Seq(Step) /\ input \in Inputs
  BY <1>1, ShapedCall
<1>4. f \in Frame /\ g \in Frame
  BY <1>3, FrameTypes
<1>5. \A place \in PlacesOf(t) : Reaches(g, place)
  BY <1>3, AllAhead
<1>6. node.of = t /\ node.null = FALSE /\ node.kind = "object"
  BY DEF Written
<1> HIDE DEF f, g, node
<1>7. Goes({f, g}) /\ Top.do = "of"
  BY <1>1, <1>2, <1>4, ShapedCall, GoesOn
<1>8. StructNode(path)' /\ ~Listed(path)'
  <2>1. go' = go
    BY <1>1, SameTypes DEF locals
  <2> QED BY <1>1, <1>6, <2>1 DEF StructNode, Listed, Put
<1>9. t \in Parts(t)
  BY <1>3, PartOfItself
<1>10. WritesNode(path, t, node, {f, g})
  BY <1>1, <1>2, <1>5, <1>6, <1>7, <1>8, <1>9 DEF WritesNode
<1> QED BY <1>10, WrittenShape

\* A path that hangs from no node is no node's.
LEMMA NotYetThere ==
    ASSUME Rooted, DOMAIN nodes \subseteq Seq(Step), NEW p \in Seq(Step), NEW s \in Step,
           ~(p \in DOMAIN nodes /\ Leads(p, s))
    PROVE  Append(p, s) \notin DOMAIN nodes
<1> SUFFICES ASSUME Append(p, s) \in DOMAIN nodes PROVE FALSE
  OBVIOUS
<1>1. Append(p, s) # <<>>
  <2> HIDE DEF Step
  <2> QED BY AppendProperties, EmptySeq
<1>2. PICK q \in DOMAIN nodes, r \in Step : Append(p, s) = Append(q, r) /\ Leads(q, r)
  BY <1>1 DEF Rooted, Hangs
<1>3. q = p /\ r = s
  BY <1>2, LastStep
<1> QED BY <1>2, <1>3

LEMMA EnterElementsShape ==
    ASSUME ModelSchemasInv, Shape, EnterElements
    PROVE  Shape'
<1> SUFFICES ASSUME NEW path, path = Top.path, NEW t, t = Top.type,
                    NEW step, step = (IF go[t].kind = "map" THEN Values ELSE Items)
             PROVE  Shape'
  OBVIOUS
<1> DEFINE f == ElementsFrame(Top.enum)
<1> DEFINE below == Append(path, step)
<1> DEFINE g == OfFrame(go[t].elem, "none", below)
<1> DEFINE node == Written(IF go[t].kind = "map" THEN "object" ELSE "array", t)
<1>1. /\ Runs("of") /\ go[t].kind \in {"list", "array", "map"} /\ Become(<<f, g>>)
      /\ Put(path, node) /\ UNCHANGED <<locals, seen, required>>
  BY DEF EnterElements, Describes
<1>2. t \in Types /\ path \in Seq(Step) /\ input \in Inputs /\ go[t].elem \in Types /\ step \in Step
         /\ DOMAIN nodes \subseteq Seq(Step) /\ Top.enum \in {"none", "texts", "integers"}
  BY <1>1, ShapedCall, InputTypes DEF Step
<1>3. below \in Seq(Step)
  BY <1>2
<1>4. f \in Frame /\ g \in Frame
  <2> HIDE DEF below
  <2> QED BY <1>2, <1>3 DEF ElementsFrame, OfFrame, Frame
<1>5. f.do = "elements" /\ g.do = "of" /\ g.path = below /\ g.type = go[t].elem
  BY DEF ElementsFrame, OfFrame
<1>6. node.of = t /\ node.null = FALSE
         /\ node.kind = (IF go[t].kind = "map" THEN "object" ELSE "array")
  BY DEF Written
<1> HIDE DEF f, g, node
<1>7. Goes({f, g}) /\ Top.do = "of" /\ Top \in Calls
  <2>1. Goes({f, g}) /\ Top.do = "of"
    BY <1>1, <1>4, <1>5, ShapedCall, GoesOn
  <2> QED BY <2>1 DEF Goes
<1>8. path \notin DOMAIN nodes
  BY <1>7 DEF Shape, Unwritten
<1>9. below \notin DOMAIN nodes
  BY <1>2, <1>8, NotYetThere DEF Shape
<1>10. below # path
  <2> HIDE DEF Step
  <2>1. Len(below) = Len(path) + 1 /\ Len(path) \in Nat
    BY <1>2, AppendProperties, LenProperties
  <2> QED BY <2>1
<1>11. go' = go /\ input' = input
  BY <1>1, SameTypes DEF locals
<1>12. Listed(path)' /\ ~StructNode(path)' /\ Into(path)' = step /\ path \in DOMAIN nodes'
  BY <1>1, <1>6, <1>11 DEF StructNode, Listed, Into, Put
<1>13. Hangs(below)'
  BY <1>2, <1>12 DEF Hangs, Leads
<1> HIDE DEF below
<1>14. Owed(below, go[t].elem)'
  <2>1. ~Waits(below)
    BY <1>7, <1>9, <1>10 DEF Shape, NullablesKnown, Waits, Coming, Goes, OnlyInnermost
  <2>2. ~Waits(below)'
    BY <1>5, <1>7, <2>1 DEF Waits, Goes
  <2>3. Coming(below)' /\ \A c \in Calls' : c.do = "of" => c.type = go[t].elem
    BY <1>5, <1>7 DEF Coming, Goes, OnlyInnermost
  <2>4. below \notin DOMAIN nodes'
    BY <1>1, <1>9, <1>10 DEF Put
  <2>5. go[t].elem \in Under(go[t].elem)
    BY <1>2, UnderPointers
  <2> QED BY <1>11, <2>2, <2>3, <2>4, <2>5, SameTypes DEF Owed
<1>15. Owed(Append(path, Into(path)), go[t].elem)'
  BY <1>11, <1>12, <1>14 DEF below
<1>16. WritesNode(path, t, node, {f, g})
  BY <1>1, <1>5, <1>6, <1>7, <1>9, <1>10, <1>12, <1>13, <1>15 DEF WritesNode
<1> QED BY <1>16, WrittenShape

\* A call of fields of a part of the object at its path.
LEMMA FieldsCall ==
    ASSUME ModelSchemasInv, Shape, Runs("fields")
    PROVE  /\ stack \in Seq(Frame) /\ stack # <<>> /\ Top.do = "fields" /\ Top \in Calls
           /\ OnlyInnermost /\ input \in Inputs /\ at = "derive"
           /\ Top.type \in Types /\ Top.path \in Seq(Step) /\ Top.next \in Nat \ {0}
           /\ StructNode(Top.path) /\ Top.type \in Parts(nodes[Top.path].of)
           /\ go[Top.type].fields \in Seq(Field) /\ Len(go[Top.type].fields) \in Nat
           /\ DOMAIN go[Top.type].fields = 1 .. Len(go[Top.type].fields)
           /\ \A i \in DOMAIN go[Top.type].fields : go[Top.type].fields[i] \in Field
<1>1. /\ stack \in Seq(Frame) /\ stack # <<>> /\ Top.do = "fields" /\ OnlyInnermost
      /\ input \in Inputs /\ at = "derive"
      /\ Top.type \in Types /\ Top.path \in Seq(Step) /\ Top.next \in Nat \ {0}
  BY ShapedCall
<1>2. Top \in Calls
  BY <1>1, TopType DEF Calls, Top
<1>3. StructNode(Top.path) /\ Top.type \in Parts(nodes[Top.path].of)
  BY <1>1, <1>2 DEF Shape, FieldsOfParts
<1> QED BY <1>1, <1>2, <1>3, FieldsIn

\* The fields behind the current one stay ahead of the call.
LEMMA GoOnReaches ==
    ASSUME ModelSchemasInv, Shape, Runs("fields"), NEW t, NEW place \in PlacesOf(t),
           Reaches(Top, place)
    PROVE  \/ GoOn.do = "fields" /\ GoOn.path = Top.path /\ Reaches(GoOn, place)
           \/ AtField /\ place = <<Top.type, Top.next>> /\ Writes(CurrentField)
           \/ AtField /\ Promotes(CurrentField) /\ place[1] \in Parts(Inner(CurrentField))
<1>1. /\ Top.next \in Nat \ {0} /\ Len(go[Top.type].fields) \in Nat
      /\ DOMAIN go[Top.type].fields = 1 .. Len(go[Top.type].fields)
  BY FieldsCall
<1>2. /\ GoOn.do = "fields" /\ GoOn.path = Top.path /\ GoOn.type = Top.type
      /\ GoOn.next = Top.next + 1
  BY DEF GoOn, FieldsFrame
<1>3. PICK s \in Parts(t) : \E i \in DOMAIN go[s].fields :
         Writes(go[s].fields[i]) /\ place = <<s, i>>
  BY PlaceParts
<1>4. PICK i \in DOMAIN go[s].fields : Writes(go[s].fields[i]) /\ place = <<s, i>>
  BY <1>3
<1>5. s \in Types /\ input \in Inputs
  BY FieldsCall DEF Parts, Reached
<1>6. i \in Nat /\ place[1] = s /\ place[2] = i
  BY <1>4, <1>5, FieldsIn
<1>7. CASE Top.type = place[1] /\ Top.next <= place[2]
  <2>1. CASE Top.next = i
    BY <1>1, <1>4, <1>6, <1>7, <2>1 DEF AtField, CurrentField
  <2>2. CASE Top.next # i
    <3>1. Top.next + 1 <= i
      BY <1>1, <1>6, <1>7, <2>2
    <3> QED BY <1>2, <1>6, <1>7, <3>1 DEF Reaches
  <2> QED BY <2>1, <2>2
<1>8. CASE \E m \in DOMAIN go[Top.type].fields :
              /\ Top.next <= m /\ Promotes(go[Top.type].fields[m])
              /\ place[1] \in Parts(Inner(go[Top.type].fields[m]))
  <2>1. PICK m \in DOMAIN go[Top.type].fields :
              /\ Top.next <= m /\ Promotes(go[Top.type].fields[m])
              /\ place[1] \in Parts(Inner(go[Top.type].fields[m]))
    BY <1>8
  <2>2. CASE Top.next = m
    BY <1>1, <2>1, <2>2 DEF AtField, CurrentField
  <2>3. CASE Top.next # m
    <3>1. Top.next + 1 <= m
      BY <1>1, <2>1, <2>3
    <3> QED BY <1>2, <2>1, <3>1 DEF Reaches
  <2> QED BY <2>2, <2>3
<1> QED BY <1>7, <1>8 DEF Reaches

LEMMA EndFieldsShape ==
    ASSUME ModelSchemasInv, Shape, EndFields
    PROVE  Shape'
<1>1. /\ Runs("fields") /\ Top.next > Len(go[Top.type].fields) /\ Become(<<>>)
      /\ UNCHANGED <<locals, inline, seen, nodes, required>>
  BY DEF EndFields
<1>2. Goes({}) /\ Top.do = "fields"
  BY <1>1, FieldsCall, GoesOn
<1>3. ASSUME NEW t, NEW place \in PlacesOf(t) PROVE ~Reaches(Top, place)
  <2>1. PICK s \in Parts(t) : \E i \in DOMAIN go[s].fields : place = <<s, i>>
    BY PlaceParts
  <2>2. PICK i \in DOMAIN go[s].fields : place = <<s, i>>
    BY <2>1
  <2>3. s \in Types
    BY DEF Parts, Reached
  <2>4. DOMAIN go[s].fields = 1 .. Len(go[s].fields) /\ Len(go[s].fields) \in Nat
    BY <1>1, <2>3, FieldsCall, FieldsIn
  <2>5. place[1] = s /\ place[2] = i
    BY <2>2
  <2>6. \A m \in DOMAIN go[Top.type].fields : ~(Top.next <= m)
    BY <1>1, FieldsCall
  <2> QED BY <2>2, <2>5, <2>6 DEF Reaches
<1>4. required' \subseteq seen'
  BY <1>1 DEF Shape
<1>5. Advances({})
  BY <1>1, <1>2, <1>3, <1>4 DEF Advances
<1> QED BY <1>5, QuietShape

LEMMA SkipFieldShape ==
    ASSUME ModelSchemasInv, Shape, SkipField
    PROVE  Shape'
<1>1. /\ AtField /\ Runs("fields") /\ ~Promotes(CurrentField) /\ ~Writes(CurrentField)
      /\ Become(<<GoOn>>) /\ UNCHANGED <<locals, inline, seen, nodes, required>>
  BY DEF SkipField, AtField
<1>2. GoOn \in Frame
  BY <1>1, AtFieldType
<1>3. Goes({GoOn}) /\ Top.do = "fields"
  BY <1>1, <1>2, FieldsCall, GoesOn
<1>4. GoOn.do = "fields" /\ GoOn.path = Top.path /\ GoOn.type = Top.type
  BY DEF GoOn, FieldsFrame
<1>5. required' \subseteq seen'
  BY <1>1 DEF Shape
<1>6. StructNode(Top.path) /\ Top.type \in Parts(nodes[Top.path].of)
  BY <1>1, FieldsCall
<1>7. \A t : \A place \in PlacesOf(t) : Reaches(Top, place) => Reaches(GoOn, place)
  BY <1>1, GoOnReaches
<1>8. PICK g : g = GoOn
  OBVIOUS
<1>9. \A p \in DOMAIN nodes : StructNode(p) => \A place \in PlacesOf(nodes[p].of) :
         Top.do = "fields" /\ Top.path = p /\ Reaches(Top, place) =>
            \E c \in {g} : c.do = "fields" /\ c.path = p /\ Reaches(c, place)
  BY <1>4, <1>7, <1>8
<1>10. Advances({g})
  BY <1>1, <1>3, <1>4, <1>5, <1>6, <1>8, <1>9 DEF Advances
<1> QED BY <1>10, QuietShape

LEMMA PromoteFieldsShape ==
    ASSUME ModelSchemasInv, Shape, PromoteFields
    PROVE  Shape'
<1> SUFFICES ASSUME NEW g, g = GoOn,
                    NEW f, f = FieldsFrame(Inner(CurrentField), 1, Top.path)
             PROVE  Shape'
  OBVIOUS
<1>1. /\ AtField /\ Runs("fields") /\ Promotes(CurrentField) /\ ~Writes(CurrentField)
      /\ Become(<<g, f>>) /\ UNCHANGED <<locals, inline, seen, nodes, required>>
  BY DEF PromoteFields, AtField, Writes
<1>2. g \in Frame /\ g.do = "fields" /\ g.path = Top.path /\ g.type = Top.type
  <2>1. g \in Frame
    BY <1>1, AtFieldType
  <2> QED BY <2>1 DEF GoOn, FieldsFrame
<1>3. Inner(CurrentField) \in Types
  BY <1>1, AtFieldType, AtCall, InnerType
<1>4. f \in Frame /\ f.do = "fields" /\ f.path = Top.path /\ f.type = Inner(CurrentField)
  <2>1. f \in Frame
    BY <1>1, <1>3, FieldsCall, FrameTypes
  <2> QED BY <2>1 DEF FieldsFrame
<1>5. Goes({g, f}) /\ Top.do = "fields"
  BY <1>1, <1>2, <1>4, FieldsCall, GoesOn
<1>6. required' \subseteq seen'
  BY <1>1 DEF Shape
<1>7. StructNode(Top.path) /\ Top.type \in Parts(nodes[Top.path].of)
  BY <1>1, FieldsCall
<1>8. Inner(CurrentField) \in Parts(nodes[Top.path].of)
  <2>1. Top.next \in DOMAIN go[Top.type].fields
    BY <1>1, FieldsCall DEF AtField
  <2> QED BY <1>1, <1>3, <1>7, <2>1, FieldsCall, PromotedPart DEF CurrentField
<1>9. ASSUME NEW t, NEW place \in PlacesOf(t), Reaches(Top, place)
      PROVE  Reaches(g, place) \/ Reaches(f, place)
  <2>1. CASE place[1] \in Parts(Inner(CurrentField))
    <3>1. PICK s \in Parts(t) : \E i \in DOMAIN go[s].fields :
             Writes(go[s].fields[i]) /\ place = <<s, i>>
      BY PlaceParts
    <3>2. place[1] = s
      BY <3>1
    <3>3. place \in PlacesOf(Inner(CurrentField))
      BY <2>1, <3>1, <3>2, PlaceParts
    <3> QED BY <1>1, <1>3, <3>3, FieldsCall, AllAhead
  <2> QED BY <1>1, <1>9, <2>1, GoOnReaches
<1>10. \A p \in DOMAIN nodes : StructNode(p) => \A place \in PlacesOf(nodes[p].of) :
         Top.do = "fields" /\ Top.path = p /\ Reaches(Top, place) =>
            \E c \in {g, f} : c.do = "fields" /\ c.path = p /\ Reaches(c, place)
  BY <1>2, <1>4, <1>9
<1>11. Advances({g, f})
  BY <1>1, <1>2, <1>4, <1>5, <1>6, <1>7, <1>8, <1>10 DEF Advances
<1> QED BY <1>11, QuietShape

\* The property is new to the object: no field that was written has it.
LEMMA WriteFieldShape ==
    ASSUME ModelSchemasInv, Shape, WriteField, ~Refuse
    PROVE  Shape'
<1> SUFFICES ASSUME NEW g, g = GoOn, NEW path, path = Append(Top.path, CurrentField.property),
                    NEW f, f = OfFrame(CurrentField.type, CurrentField.enum, path),
                    NEW p, p = Top.path, NEW field, field = CurrentField
             PROVE  Shape'
  OBVIOUS
<1>1. /\ AtField /\ Runs("fields") /\ Writes(field) /\ path \notin seen
      /\ Become(<<g, f>>) /\ UNCHANGED <<locals, inline, nodes>>
      /\ seen' = seen \cup {path} /\ required' = required \cup {q \in {path} : ~field.optional}
  BY DEF WriteField, AtField, RequiredBy
<1>2. g \in Frame /\ g.do = "fields" /\ g.path = p /\ g.type = Top.type
  <2>1. g \in Frame
    BY <1>1, AtFieldType
  <2> QED BY <2>1 DEF GoOn, FieldsFrame
<1>3. field \in Field /\ p \in Seq(Step) /\ field.property \in Step /\ path = Append(p, field.property)
  BY <1>1, AtFieldType DEF Field, Step
<1>4. path \in Seq(Step)
  BY <1>3
<1>5. f \in Frame /\ f.do = "of" /\ f.path = path /\ f.type = field.type /\ field.type \in Types
  <2>1. field.type \in Types /\ field.enum \in {"none", "texts", "integers"}
    BY <1>3 DEF Field
  <2>2. f \in Frame
    BY <1>4, <2>1 DEF OfFrame, Frame
  <2> QED BY <2>1, <2>2 DEF OfFrame
<1>6. Goes({g, f}) /\ Top.do = "fields"
  BY <1>1, <1>2, <1>5, FieldsCall, GoesOn
<1>7. StructNode(p) /\ Top.type \in Parts(nodes[p].of) /\ p \in DOMAIN nodes
  BY <1>1, FieldsCall DEF StructNode
<1>8. path \notin DOMAIN nodes
  <2>1. ~Leads(p, field.property)
    BY <1>1, <1>3, <1>7 DEF Leads, Listed, StructNode
  <2>2. DOMAIN nodes \subseteq Seq(Step) /\ Rooted
    BY DEF Shape, ModelSchemasInv, ModelSchemasTypeOK
  <2> QED BY <1>3, <2>1, <2>2, NotYetThere
<1>9. <<Top.type, Top.next>> \in PlacesOf(nodes[p].of) /\ FieldAt(<<Top.type, Top.next>>) = field
  <2>1. Top.next \in DOMAIN go[Top.type].fields
    BY <1>1, FieldsCall DEF AtField
  <2>2. field = go[Top.type].fields[Top.next]
    BY DEF CurrentField
  <2> QED BY <1>1, <1>7, <2>1, <2>2, PlaceParts DEF FieldAt
<1>10. Hangs(path)'
  <2>1. field \in WrittenFields(nodes[p].of)
    BY <1>9 DEF WrittenFields
  <2>2. StructNode(p)' /\ p \in DOMAIN nodes' /\ WrittenFields(nodes[p].of)' = WrittenFields(nodes[p].of)
    BY <1>1, <1>7, SameTypes DEF StructNode, locals
  <2>4. field.property \in {h.property : h \in WrittenFields(nodes[p].of)'}
    BY <2>1, <2>2
  <2>5. Append(p, field.property) \in seen'
    BY <1>1, <1>3
  <2>6. Leads(p, field.property)'
    BY <1>1, <2>2, <2>4, <2>5 DEF Leads
  <2> QED BY <1>3, <2>2, <2>6 DEF Hangs
<1>11. Owed(path, field.type)'
  <2>1. ~Waits(path)
    BY <1>6, <1>8 DEF Shape, NullablesKnown, Waits, Coming, Goes, OnlyInnermost
  <2>2. ~Waits(path)'
    BY <1>2, <1>5, <1>6, <2>1 DEF Waits, Goes
  <2>3. Coming(path)' /\ \A c \in Calls' : c.do = "of" => c.type = field.type
    BY <1>2, <1>5, <1>6 DEF Coming, Goes, OnlyInnermost
  <2>4. field.type \in Under(field.type)
    BY <1>1, <1>5, FieldsCall, UnderPointers
  <2>5. input' = input /\ nodes' = nodes
    BY <1>1 DEF locals
  <2> QED BY <1>8, <2>2, <2>3, <2>4, <2>5, SameTypes DEF Owed
<1>12. Settled(p, field)'
  <2>1. path \notin required
    BY <1>1 DEF Shape
  <2> QED BY <1>1, <1>3, <1>11, <2>1 DEF Settled
<1>13. ASSUME NEW t, NEW place \in PlacesOf(t), Reaches(Top, place)
       PROVE  Reaches(g, place) \/ FieldAt(place)' = field
  <2>1. ~Promotes(CurrentField)
    BY <1>1 DEF Writes
  <2>2. Reaches(g, place) \/ place = <<Top.type, Top.next>>
    BY <1>1, <1>13, <2>1, GoOnReaches
  <2>3. FieldAt(place)' = FieldAt(place)
    BY <1>1, SameTypes DEF locals
  <2> QED BY <1>9, <2>2, <2>3
<1>14. \A q \in DOMAIN nodes : StructNode(q) => \A place \in PlacesOf(nodes[q].of) :
         Top.do = "fields" /\ Top.path = q /\ Reaches(Top, place) =>
            \/ \E c \in {g, f} : c.do = "fields" /\ c.path = q /\ Reaches(c, place)
            \/ Settled(q, FieldAt(place))'
  BY <1>2, <1>12, <1>13
<1>15. required' \subseteq seen' /\ required' \cap seen \subseteq required
  BY <1>1 DEF Shape
<1>16. Advances({g, f})
  <2>1. seen \subseteq seen' /\ required \subseteq required'
    BY <1>1
  <2>2. \A c \in {g, f} :
           /\ c.do # "nullable"
           /\ c.do = "of" => c.path \notin DOMAIN nodes /\ Hangs(c.path)'
           /\ c.do = "fields" => StructNode(c.path) /\ c.type \in Parts(nodes[c.path].of)
    BY <1>2, <1>5, <1>7, <1>8, <1>10
  <2> QED BY <1>1, <1>6, <1>14, <1>15, <2>1, <2>2 DEF Advances
<1> QED BY <1>16, QuietShape

-----------------------------------------------------------------------------
(* The schemas that are returned *)

\* What SchemasFitTheirTypes says of one schema, a $ref naming one of the models.
SchemaFits(schema, t) ==
    /\ Fits(schema, <<>>, t)
    /\ \A p \in DOMAIN schema.nodes :
          LET node == schema.nodes[p]
          IN  CASE node.kind = "object" /\ go[node.of].kind = "struct" ->
                      /\ Children(schema, p) = {f.property : f \in WrittenFields(node.of)}
                      /\ \A f \in WrittenFields(node.of) :
                            LET q == Append(p, f.property)
                            IN  /\ Fits(schema, q, f.type)
                                /\ q \in schema.required <=> ~f.optional
                [] node.kind \in {"object", "array"} /\ go[node.of].kind # "struct" ->
                      LET s == IF node.kind = "object" THEN Values ELSE Items
                      IN  /\ Children(schema, p) = {s}
                          /\ Fits(schema, Append(p, s), go[node.of].elem)
                [] node.kind = "ref" -> Named(node.of)
                [] OTHER -> Children(schema, p) = {}

\* The models behind the one under way have their schemas.
StoredFit ==
    /\ at \in {"model", "derive", "done"} => \A i \in DOMAIN models : i < index =>
          models[i].name \in DOMAIN out /\ SchemaFits(out[models[i].name], models[i].type)
    /\ at = "done" => index > Len(models)
    /\ at = "names" => index = 1

FitInv == ModelSchemasInv /\ ShapeInv /\ StoredFit

\* When no call is left nothing is owed.
LEMMA PaidOff ==
    ASSUME Shape, stack = <<>>, NEW q, NEW t, Owed(q, t)
    PROVE  Fits([nodes |-> nodes, required |-> required], q, t)
<1>1. Calls = {}
  BY DEF Calls
<1> QED BY <1>1 DEF Owed, Coming, Waits, Fits

LEMMA WholeFits ==
    ASSUME ModelSchemasInv, Shape, stack = <<>>
    PROVE  SchemaFits([nodes |-> nodes, required |-> required], models[index].type)
<1> DEFINE schema == [nodes |-> nodes, required |-> required]
<1>1. schema.nodes = nodes /\ schema.required = required
  OBVIOUS
<1>2. Calls = {}
  BY DEF Calls
<1>3. \A q, t : Owed(q, t) => Fits(schema, q, t)
  BY PaidOff
<1> HIDE DEF schema
<1>4. DOMAIN nodes \subseteq Seq(Step) /\ \A p \in DOMAIN nodes : nodes[p] \in Node
  BY DEF ModelSchemasInv, ModelSchemasTypeOK
<1>5. ASSUME NEW p \in DOMAIN nodes, NEW s \in Children(schema, p)
      PROVE  s \in Step /\ Leads(p, s)
  <2>1. s \in Step /\ Append(p, s) \in DOMAIN nodes
    BY <1>1 DEF Children
  <2>2. SUFFICES ASSUME ~Leads(p, s) PROVE FALSE
    BY <2>1
  <2> QED BY <1>4, <2>1, <2>2, NotYetThere DEF Shape
<1>6. ASSUME NEW p \in DOMAIN nodes, NEW s \in Step, NEW t, Fits(schema, Append(p, s), t)
      PROVE  s \in Children(schema, p)
  BY <1>6 DEF Fits, Children
<1>7. Fits(schema, <<>>, models[index].type)
  BY <1>3 DEF Shape
<1>8. ASSUME NEW p \in DOMAIN nodes, StructNode(p)
      PROVE  /\ Children(schema, p) = {f.property : f \in WrittenFields(nodes[p].of)}
             /\ \A f \in WrittenFields(nodes[p].of) :
                   /\ Fits(schema, Append(p, f.property), f.type)
                   /\ Append(p, f.property) \in required <=> ~f.optional
  <2>1. ASSUME NEW f \in WrittenFields(nodes[p].of)
        PROVE  Settled(p, f)
    <3>1. PICK place \in PlacesOf(nodes[p].of) : f = FieldAt(place)
      BY DEF WrittenFields
    <3>2. ~Ahead(p, place)
      BY <1>2 DEF Ahead
    <3> QED BY <1>8, <3>1, <3>2 DEF Shape, FieldsOwed
  <2>2. ASSUME NEW f \in WrittenFields(nodes[p].of)
        PROVE  /\ Fits(schema, Append(p, f.property), f.type)
               /\ Append(p, f.property) \in required <=> ~f.optional
               /\ f.property \in Step
    <3>1. f.property \in Step
      <4>1. PICK place \in PlacesOf(nodes[p].of) : f = FieldAt(place)
        BY DEF WrittenFields
      <4>2. PICK s \in Parts(nodes[p].of) : \E i \in DOMAIN go[s].fields : place = <<s, i>>
        BY PlaceParts
      <4>3. PICK i \in DOMAIN go[s].fields : place = <<s, i>>
        BY <4>2
      <4>4. s \in Types /\ input \in Inputs
        BY DEF Parts, Reached, ModelSchemasInv, ModelSchemasTypeOK
      <4>5. f = go[s].fields[i]
        BY <4>1, <4>3 DEF FieldAt
      <4>6. f \in Field
        BY <4>3, <4>4, <4>5, FieldsIn
      <4> QED BY <4>6 DEF Field, Step
    <3> QED BY <1>3, <2>1, <3>1 DEF Settled
  <2>3. \A f \in WrittenFields(nodes[p].of) : f.property \in Children(schema, p)
    BY <1>6, <2>2
  <2>4. ASSUME NEW s \in Children(schema, p)
        PROVE  s \in {f.property : f \in WrittenFields(nodes[p].of)}
    BY <1>5, <1>8 DEF Leads, StructNode, Listed
  <2> QED BY <2>2, <2>3, <2>4
<1>9. ASSUME NEW p \in DOMAIN nodes, Listed(p)
      PROVE  /\ Children(schema, p) = {Into(p)}
             /\ Fits(schema, Append(p, Into(p)), go[nodes[p].of].elem)
  <2>1. Fits(schema, Append(p, Into(p)), go[nodes[p].of].elem)
    BY <1>3, <1>9 DEF Shape, ElementsOwed
  <2>2. Into(p) \in Children(schema, p)
    <3>1. Into(p) \in Step
      BY DEF Into, Step
    <3> QED BY <1>6, <2>1, <3>1
  <2>3. \A s \in Children(schema, p) : s = Into(p)
    BY <1>5, <1>9 DEF Leads, StructNode, Listed
  <2> QED BY <2>1, <2>2, <2>3
<1>10. ASSUME NEW p \in DOMAIN nodes, ~StructNode(p), ~Listed(p)
       PROVE  Children(schema, p) = {}
  BY <1>5, <1>10 DEF Leads
<1>11. ASSUME NEW p \in DOMAIN nodes
       PROVE  nodes[p].kind = "ref" => Named(nodes[p].of)
  BY DEF Shape, NodesFit
<1>12. SchemaFits(schema, models[index].type)
  <2> SUFFICES ASSUME NEW p \in DOMAIN nodes
               PROVE  LET node == nodes[p]
                      IN  CASE node.kind = "object" /\ go[node.of].kind = "struct" ->
                                  /\ Children(schema, p) = {f.property : f \in WrittenFields(node.of)}
                                  /\ \A f \in WrittenFields(node.of) :
                                        LET q == Append(p, f.property)
                                        IN  /\ Fits(schema, q, f.type)
                                            /\ q \in schema.required <=> ~f.optional
                            [] node.kind \in {"object", "array"} /\ go[node.of].kind # "struct" ->
                                  LET s == IF node.kind = "object" THEN Values ELSE Items
                                  IN  /\ Children(schema, p) = {s}
                                      /\ Fits(schema, Append(p, s), go[node.of].elem)
                            [] node.kind = "ref" -> Named(node.of)
                            [] OTHER -> Children(schema, p) = {}
    BY <1>1, <1>7 DEF SchemaFits
  <2>1. CASE StructNode(p)
    BY <1>1, <1>8, <2>1 DEF StructNode
  <2>2. CASE Listed(p)
    BY <1>9, <2>2 DEF Listed, Into
  <2>3. CASE ~StructNode(p) /\ ~Listed(p)
    BY <1>10, <1>11, <2>3 DEF Listed, StructNode
  <2> QED BY <2>1, <2>2, <2>3
<1> QED BY <1>12 DEF schema

LEMMA SameFits ==
    ASSUME input' = input, NEW schema, NEW t, SchemaFits(schema, t)
    PROVE  SchemaFits(schema, t)'
<1>1. go' = go
  BY SameTypes
<1>2. \A p, u : Fits(schema, p, u)' <=> Fits(schema, p, u)
  BY <1>1, SameTypes DEF Fits
<1>3. \A p : Children(schema, p)' = Children(schema, p)
  BY DEF Children
<1> QED BY <1>1, <1>2, <1>3, SameTypes DEF SchemaFits

-----------------------------------------------------------------------------
(* The shape through the steps of SchemasFromModels *)

LEMMA ModelUnderWay ==
    ASSUME ModelSchemasInv, at \in {"model", "derive"}, index <= Len(models)
    PROVE  /\ input \in Inputs /\ index \in DOMAIN models /\ index \in Nat
           /\ DOMAIN models = 1 .. Len(models) /\ Len(models) \in Nat
           /\ models[index].type \in Types
<1>1. /\ input \in Inputs /\ ~BadModels /\ index \in 1 .. Len(models) + 1
      /\ models \in Seq(Model)
  BY InputTypes DEF ModelSchemasInv, ModelSchemasTypeOK, NamesRead
<1>2. DOMAIN models = 1 .. Len(models) /\ Len(models) \in Nat
  BY <1>1, LenProperties
<1>3. index \in DOMAIN models /\ index \in Nat
  BY <1>1, <1>2
<1> QED BY <1>1, <1>2, <1>3, GoodModels

\* root: a struct has all its fields ahead, any other type is a call to come.
LEMMA BeginShape ==
    ASSUME ModelSchemasInv, BeginModel, ~Refuse
    PROVE  Shape'
<1> SUFFICES ASSUME NEW t, t = models[index].type PROVE Shape'
  OBVIOUS
<1>1. /\ models[index].name \notin DOMAIN out /\ seen' = {} /\ required' = {}
      /\ UNCHANGED <<input, index, out>>
  BY DEF BeginModel
<1>2. t \in Types /\ input \in Inputs
  BY ModelUnderWay DEF BeginModel
<1>3. /\ input' = input /\ go' = go /\ models' = models
      /\ models'[index'].type = t /\ models'[index'].name \notin DOMAIN out'
  BY <1>1, SameTypes
<1>4. CASE /\ go[t].kind = "struct"
           /\ stack' = <<CloseFrame(t), FieldsFrame(t, 1, <<>>)>>
           /\ nodes' = [p \in {<<>>} |-> Written("object", t)]
  <2> DEFINE f == CloseFrame(t)
  <2> DEFINE g == FieldsFrame(t, 1, <<>>)
  <2> DEFINE node == Written("object", t)
  <2>1. f.do = "close" /\ g.do = "fields" /\ g.path = <<>> /\ g.type = t
    BY DEF CloseFrame, FieldsFrame
  <2>2. node.of = t /\ node.null = FALSE /\ node.kind = "object"
    BY DEF Written
  <2>3. \A place \in PlacesOf(t) : Reaches(g, place)
    BY <1>2, AllAhead
  <2> HIDE DEF f, g, node
  <2>4. stack' = <<f, g>>
    BY <1>4 DEF f, g
  <2>5. DOMAIN stack' = {1, 2} /\ Len(stack') = 2 /\ stack'[1] = f /\ stack'[2] = g
    BY <2>4
  <2>6. Calls' = {f, g} /\ Below' = {f}
    <3>1. 1 .. Len(stack') - 1 = {1}
      BY <2>5
    <3> QED BY <2>5, <3>1 DEF Calls, Below
  <2>7. DOMAIN nodes' = {<<>>} /\ nodes'[<<>>] = node
    BY <1>4 DEF node
  <2>8. StructNode(<<>>)' /\ \A p \in DOMAIN nodes' : p = <<>> /\ ~Listed(p)'
    BY <1>3, <1>4, <2>2, <2>7 DEF StructNode, Listed
  <2>9. \A c \in Calls' : c.do \notin {"of", "nullable"}
    BY <2>1, <2>6
  <2>10. OnlyInnermost' /\ Unwritten' /\ NullablesKnown' /\ Rooted'
    BY <2>1, <2>6, <2>8, <2>9 DEF OnlyInnermost, Unwritten, NullablesKnown, Rooted, Hangs
  <2>11. NodesFit'
    BY <2>2, <2>7 DEF NodesFit
  <2>12. t \in Parts(t) /\ t \in Pointees(t)
    BY <1>2, <1>4, PartOfItself, UnderPointers
  <2>13. FieldsOfParts'
    <3>1. \A c \in Calls' : c.do = "fields" => c = g
      BY <2>1, <2>6
    <3> QED BY <1>3, <2>1, <2>2, <2>7, <2>8, <2>12, <3>1, SameTypes DEF FieldsOfParts
  <2>14. Owed(<<>>, t)'
    BY <1>3, <1>4, <2>2, <2>7, <2>9, <2>12, SameTypes DEF Owed, Waits, Coming
  <2>15. ElementsOwed'
    BY <2>8 DEF ElementsOwed
  <2>16. FieldsOwed'
    <3>1. \A place \in PlacesOf(t) : Ahead(<<>>, place)'
      BY <1>3, <2>1, <2>3, <2>6, SameTypes DEF Ahead
    <3> QED BY <1>3, <2>2, <2>7, <3>1, SameTypes DEF FieldsOwed
  <2>17. Owed(<<>>, models[index].type)'
    BY <1>3, <2>14
  <2> QED BY <1>1, <1>3, <2>10, <2>11, <2>13, <2>15, <2>16, <2>17 DEF Shape
<1>5. CASE stack' = <<OfFrame(t, "none", <<>>)>> /\ nodes' = Empty
  <2> DEFINE g == OfFrame(t, "none", <<>>)
  <2>1. g.do = "of" /\ g.path = <<>> /\ g.type = t
    BY DEF OfFrame
  <2> HIDE DEF g
  <2>2. stack' = <<g>>
    BY <1>5 DEF g
  <2>3. DOMAIN stack' = {1} /\ Len(stack') = 1 /\ stack'[1] = g
    BY <2>2
  <2>4. Calls' = {g} /\ Below' = {}
    <3>1. 1 .. Len(stack') - 1 = {}
      BY <2>3
    <3> QED BY <2>3, <3>1 DEF Calls, Below
  <2>5. DOMAIN nodes' = {}
    BY <1>5 DEF Empty
  <2>6. \A c \in Calls' : c = g
    BY <2>4
  <2>7. OnlyInnermost' /\ Unwritten' /\ NullablesKnown' /\ Rooted' /\ NodesFit' /\ FieldsOfParts'
    BY <2>1, <2>4, <2>5
    DEF OnlyInnermost, Unwritten, NullablesKnown, Rooted, Hangs, NodesFit, FieldsOfParts
  <2>8. t \in Under(t)
    BY <1>2, UnderPointers
  <2>9. Owed(<<>>, t)'
    BY <1>3, <2>1, <2>4, <2>5, <2>8, SameTypes DEF Owed, Waits, Coming
  <2>10. ElementsOwed' /\ FieldsOwed'
    BY <2>5 DEF ElementsOwed, FieldsOwed
  <2>11. Owed(<<>>, models[index].type)'
    BY <1>3, <2>9
  <2> QED BY <1>1, <1>3, <2>7, <2>10, <2>11 DEF Shape
<1> QED BY <1>4, <1>5 DEF BeginModel

\* The steps of deriver: what is stored stays.
LEMMA DeriverFits ==
    ASSUME FitInv, UNCHANGED locals, at = "derive", ModelSchemasInv', Shape'
    PROVE  FitInv'
<1>1. input' = input /\ at' = at /\ index' = index /\ out' = out /\ models' = models
  BY SameTypes DEF locals
<1>2. StoredFit'
  BY <1>1, SameFits DEF FitInv, StoredFit
<1> QED BY <1>2 DEF FitInv, ShapeInv

LEMMA RefuseFits ==
    ASSUME FitInv, Refuse
    PROVE  FitInv'
<1>1. at' = "refused" /\ ModelSchemasInv'
  BY RefuseKeeps DEF FitInv, Refuse
<1> QED BY <1>1 DEF FitInv, ShapeInv, StoredFit

LEMMA InitFits ==
    ASSUME ModelSchemasInit
    PROVE  FitInv
BY InitKeeps DEF FitInv, ShapeInv, StoredFit, ModelSchemasInit

LEMMA ReadNamesFits ==
    ASSUME FitInv, ReadNames
    PROVE  FitInv'
<1>1. CASE Refuse
  BY <1>1, RefuseFits
<1>2. CASE ~Refuse
  <2>1. ModelSchemasInv' /\ input \in Inputs
    BY ReadNamesKeeps DEF FitInv, ModelSchemasInv, ModelSchemasTypeOK
  <2>2. at' = "model" /\ index' = 1 /\ models' = models
    BY <1>2, SameTypes DEF ReadNames, FitInv, StoredFit
  <2>3. \A i \in DOMAIN models : ~(i < 1)
    BY <2>1, InputTypes, LenProperties
  <2> QED BY <2>1, <2>2, <2>3 DEF FitInv, ShapeInv, StoredFit
<1> QED BY <1>1, <1>2

LEMMA BeginModelFits ==
    ASSUME FitInv, BeginModel
    PROVE  FitInv'
<1>1. CASE Refuse
  BY <1>1, RefuseFits
<1>2. CASE ~Refuse
  <2>1. ModelSchemasInv' /\ Shape'
    BY <1>2, BeginModelKeeps, BeginShape DEF FitInv
  <2>2. at = "model" /\ at' = "derive" /\ index' = index /\ out' = out /\ input' = input
    BY <1>2 DEF BeginModel
  <2>3. StoredFit'
    BY <2>2, SameTypes, SameFits DEF FitInv, StoredFit
  <2> QED BY <2>1, <2>3 DEF FitInv, ShapeInv
<1> QED BY <1>1, <1>2

LEMMA StoreModelFits ==
    ASSUME FitInv, StoreModel
    PROVE  FitInv'
<1>1. CASE Refuse
  BY <1>1, RefuseFits
<1>2. CASE ~Refuse
  <2> DEFINE schema == [nodes |-> nodes, required |-> required]
  <2> DEFINE name == models[index].name
  <2>1. /\ out' = [n \in DOMAIN out \cup {name} |-> IF n = name THEN schema ELSE out[n]]
        /\ index' = index + 1 /\ at' = "model" /\ at = "derive" /\ stack = <<>> /\ input' = input
    BY <1>2 DEF StoreModel
  <2>2. ModelSchemasInv' /\ ModelSchemasInv /\ Shape /\ StoredFit
    BY <2>1, StoreModelKeeps DEF FitInv, ShapeInv
  <2>3. SchemaFits(schema, models[index].type) /\ name \notin DOMAIN out
    BY <2>1, <2>2, WholeFits DEF Shape
  <2> HIDE DEF schema, name
  <2>4. models' = models
    BY <2>1, SameTypes
  <2>5. index \in Nat /\ DOMAIN models \subseteq Nat
    <3>1. index <= Len(models)
      BY <2>1, <2>2 DEF ModelSchemasInv, ModelSchemasTypeOK
    <3> QED BY <2>1, <2>2, <3>1, ModelUnderWay
  <2>6. ASSUME NEW i \in DOMAIN models, i < index + 1
        PROVE  models[i].name \in DOMAIN out' /\ SchemaFits(out'[models[i].name], models[i].type)
    <3>1. CASE i = index
      BY <2>1, <2>3, <3>1 DEF name
    <3>2. CASE i # index
      <4>1. i < index
        BY <2>5, <2>6, <3>2
      <4>2. models[i].name \in DOMAIN out /\ SchemaFits(out[models[i].name], models[i].type)
        BY <2>1, <2>2, <4>1 DEF StoredFit
      <4> QED BY <2>1, <2>3, <4>2
    <3> QED BY <3>1, <3>2
  <2>7. StoredFit'
    BY <2>1, <2>4, <2>6, SameFits DEF StoredFit
  <2> QED BY <2>1, <2>2, <2>7 DEF FitInv, ShapeInv
<1> QED BY <1>1, <1>2

LEMMA StopFits ==
    ASSUME FitInv, ReturnSchemas \/ Overflow \/ UNCHANGED vars
    PROVE  FitInv'
<1>1. ModelSchemasInv'
  BY StopKeeps DEF FitInv
<1>2. CASE ReturnSchemas
  <2>1. at = "model" /\ at' = "done" /\ index > Len(models) /\ index' = index /\ out' = out
           /\ input' = input /\ models' = models
    BY <1>2, SameTypes DEF ReturnSchemas
  <2> QED BY <1>1, <2>1, SameFits DEF FitInv, ShapeInv, StoredFit
<1>3. CASE Overflow
  BY <1>1, <1>3 DEF Overflow, FitInv, ShapeInv, StoredFit
<1>4. CASE UNCHANGED vars
  <2>1. /\ at' = at /\ index' = index /\ out' = out /\ input' = input /\ stack' = stack
        /\ nodes' = nodes /\ seen' = seen /\ required' = required /\ models' = models
    BY <1>4, SameTypes DEF vars
  <2>2. Calls' = Calls /\ Below' = Below
    BY <2>1 DEF Calls, Below
  <2>3. /\ \A q, t : Owed(q, t)' <=> Owed(q, t)
        /\ \A q : Coming(q)' <=> Coming(q)
        /\ \A q : (StructNode(q)' <=> StructNode(q)) /\ (Listed(q)' <=> Listed(q)) /\ Into(q)' = Into(q)
        /\ \A q : Hangs(q) => Hangs(q)'
    <3>1. \A q : (Coming(q)' <=> Coming(q)) /\ (Waits(q)' <=> Waits(q))
      BY <2>2 DEF Coming, Waits
    <3>2. \A q, t : Owed(q, t)' <=> Owed(q, t)
      BY <2>1, <2>2, <3>1, SameTypes DEF Owed
    <3>3. \A q : Hangs(q) => Hangs(q)'
      BY <2>1, StillHangs
    <3>4. \A q : (StructNode(q)' <=> StructNode(q)) /\ (Listed(q)' <=> Listed(q)) /\ Into(q)' = Into(q)
      BY <2>1, SameTypes DEF StructNode, Listed, Into
    <3> QED BY <3>1, <3>2, <3>3, <3>4
  <2>4. ASSUME Shape PROVE Shape'
    <3>1. OnlyInnermost' /\ Unwritten' /\ NullablesKnown' /\ Rooted'
      BY <2>1, <2>2, <2>3, <2>4 DEF Shape, OnlyInnermost, Unwritten, NullablesKnown, Rooted
    <3>2. NodesFit' /\ FieldsOfParts'
      BY <2>1, <2>2, <2>3, <2>4, SameTypes DEF Shape, NodesFit, FieldsOfParts
    <3>3. ElementsOwed'
      BY <2>1, <2>3, <2>4, SameTypes DEF Shape, ElementsOwed
    <3>4. FieldsOwed'
      <4>1. \A q, f : Settled(q, f)' <=> Settled(q, f)
        BY <2>1, <2>3 DEF Settled
      <4>2. \A q, place : Ahead(q, place)' <=> Ahead(q, place)
        BY <2>1, <2>2, SameTypes DEF Ahead
      <4> QED BY <2>1, <2>3, <2>4, <4>1, <4>2, SameTypes DEF Shape, FieldsOwed
    <3> QED BY <2>1, <2>3, <2>4, <3>1, <3>2, <3>3, <3>4 DEF Shape
  <2>5. ShapeInv'
    BY <2>1, <2>4 DEF FitInv, ShapeInv
  <2> QED BY <1>1, <2>1, <2>5, SameFits DEF FitInv, StoredFit
<1> QED BY <1>2, <1>3, <1>4

\* Every step.
LEMMA StepFits ==
    ASSUME FitInv, [ModelSchemasNext]_vars
    PROVE  FitInv'
<1>1. ModelSchemasInv' /\ ModelSchemasInv /\ ShapeInv
  BY StepKeeps DEF FitInv
<1>2. CASE ReadNames \/ BeginModel \/ StoreModel \/ ReturnSchemas \/ Overflow \/ UNCHANGED vars
  BY <1>2, ReadNamesFits, BeginModelFits, StoreModelFits, StopFits
<1>3. CASE Refuse
  BY <1>3, RefuseFits
<1>4. CASE /\ ~Refuse
           /\ \/ Dereference \/ Refer \/ WriteScalar \/ RefuseType \/ EnterElements
              \/ EndElements \/ EnterStruct \/ CloseStruct \/ MakeNullable
              \/ EndFields \/ SkipField \/ PromoteFields \/ WriteField
  <2>1. at = "derive" /\ UNCHANGED locals
    BY <1>4 DEF Dereference, Refer, WriteScalar, RefuseType, EnterElements, EndElements,
                EnterStruct, CloseStruct, MakeNullable, EndFields, SkipField, PromoteFields,
                WriteField, AtField, Describes, Runs
  <2>2. Shape
    BY <1>1, <2>1 DEF ShapeInv
  <2>3. Shape'
    BY <1>1, <1>4, <2>2, DereferenceShape, ReferShape, WriteScalarShape, EnterElementsShape,
       EndShape, EnterStructShape, MakeNullableShape, EndFieldsShape, SkipFieldShape,
       PromoteFieldsShape, WriteFieldShape DEF RefuseType
  <2> QED BY <1>1, <2>1, <2>3, DeriverFits
<1> QED BY <1>2, <1>3, <1>4 DEF ModelSchemasNext

(***************************************************************************)
(* Whatever the types and the models, a schema that is returned has the   *)
(* shape of its type: the properties of a struct are those of its fields  *)
(* and of the ones it embeds at any depth, those without omitempty or     *)
(* omitzero are required, null is allowed where there is a pointer, and   *)
(* every $ref names a component that is returned with it.                 *)
(***************************************************************************)
THEOREM SchemasFit == ModelSchemasSpec => []SchemasFitTheirTypes
<1>1. ASSUME FitInv PROVE SchemasFitTheirTypes
  <2> SUFFICES ASSUME at = "done", NEW i \in DOMAIN models
               PROVE  LET schema == out[models[i].name]
                      IN  /\ Fits(schema, <<>>, models[i].type)
                          /\ \A p \in DOMAIN schema.nodes :
                                LET node == schema.nodes[p]
                                IN  CASE node.kind = "object" /\ go[node.of].kind = "struct" ->
                                            /\ Children(schema, p) = {f.property : f \in WrittenFields(node.of)}
                                            /\ \A f \in WrittenFields(node.of) :
                                                  LET q == Append(p, f.property)
                                                  IN  /\ Fits(schema, q, f.type)
                                                      /\ q \in schema.required <=> ~f.optional
                                      [] node.kind \in {"object", "array"} /\ go[node.of].kind # "struct" ->
                                            LET s == IF node.kind = "object" THEN Values ELSE Items
                                            IN  /\ Children(schema, p) = {s}
                                                /\ Fits(schema, Append(p, s), go[node.of].elem)
                                      [] node.kind = "ref" ->
                                            \E j \in DOMAIN models : /\ models[j].type = node.of
                                                                     /\ models[j].name \in DOMAIN out
                                      [] OTHER -> Children(schema, p) = {}
    BY DEF SchemasFitTheirTypes
  <2>1. input \in Inputs /\ models \in Seq(Model) /\ index \in Nat /\ index > Len(models)
    <3>1. input \in Inputs /\ index \in 1 .. Len(models) + 1 /\ index > Len(models)
      BY <1>1 DEF FitInv, StoredFit, ModelSchemasInv, ModelSchemasTypeOK
    <3>2. models \in Seq(Model)
      BY <3>1, InputTypes
    <3> QED BY <3>1, <3>2, LenProperties
  <2>2. \A j \in DOMAIN models : j < index
    BY <2>1, LenProperties
  <2>3. \A j \in DOMAIN models : models[j].name \in DOMAIN out
                                    /\ SchemaFits(out[models[j].name], models[j].type)
    BY <1>1, <2>2 DEF FitInv, StoredFit
  <2>4. \A t : Named(t) => \E j \in DOMAIN models : /\ models[j].type = t
                                                    /\ models[j].name \in DOMAIN out
    BY <2>3 DEF Named
  <2> DEFINE schema == out[models[i].name]
  <2>5. SchemaFits(schema, models[i].type)
    BY <2>3
  <2> HIDE DEF schema
  <2>6. Fits(schema, <<>>, models[i].type)
    BY <2>5 DEF SchemaFits
  <2> QED BY <2>4, <2>5, <2>6, Zenon DEF SchemaFits, schema
<1>2. FitInv /\ [ModelSchemasNext]_vars => FitInv'
  BY StepFits
<1> QED BY InitFits, <1>1, <1>2, PTL DEF ModelSchemasSpec

-----------------------------------------------------------------------------
(* Parts of a struct, by the ways they are promoted *)

Endless(s) == s \in Reached(Promoted(s), Promoted)

\* The embedded fields of a struct, each where it is declared.
EmbeddedIn(t) ==
    UNION {{<<s, i>> : i \in {j \in DOMAIN go[s].fields : Promotes(go[s].fields[j])}} : s \in Parts(t)}

LEMMA PromotedTypes ==
    ASSUME input \in Inputs, NEW t \in Types
    PROVE  /\ \A i \in DOMAIN go[t].fields : Inner(go[t].fields[i]) \in Types
           /\ Promoted(t) \subseteq Types
           /\ \A w : w \in Promoted(t) <=>
                 \E i \in DOMAIN go[t].fields : Promotes(go[t].fields[i]) /\ w = Inner(go[t].fields[i])
<1>1. \A i \in DOMAIN go[t].fields : Inner(go[t].fields[i]) \in Types
  BY FieldsIn, InnerType
<1> QED BY <1>1 DEF Promoted, FieldsOf

LEMMA PartsAreTypes ==
    ASSUME NEW t
    PROVE  Parts(t) \subseteq Types
BY DEF Parts, Reached

LEMMA PromotedInParts ==
    ASSUME input \in Inputs, NEW t, NEW s \in Parts(t)
    PROVE  Promoted(s) \subseteq Parts(t)
<1>1. s \in Types
  BY PartsAreTypes
<1> QED BY <1>1, PromotedTypes, PromotedPart

LEMMA PartOfPart ==
    ASSUME input \in Inputs, NEW t, NEW w \in Parts(t)
    PROVE  Parts(w) \subseteq Parts(t)
<1> DEFINE S == Parts(t)
<1>1. S \in SUBSET Types /\ {w} \subseteq S /\ \A v \in S : Promoted(v) \subseteq S
  BY PartsAreTypes, PromotedInParts
<1> HIDE DEF S
<1>2. Parts(w) \subseteq S
  BY <1>1 DEF Parts, Reached
<1> QED BY <1>2 DEF S

\* What is written by a part is written by the struct.
LEMMA PlacesOfPart ==
    ASSUME input \in Inputs, NEW t, NEW w \in Parts(t)
    PROVE  PlacesOf(w) \subseteq PlacesOf(t)
BY PartOfPart, PlaceParts

\* A part other than the struct itself is promoted by a part.
LEMMA PartIsPromoted ==
    ASSUME input \in Inputs, NEW t \in Types, NEW s \in Parts(t)
    PROVE  s = t \/ \E z \in Parts(t) : s \in Promoted(z)
<1> DEFINE S == {u \in Parts(t) : u = t \/ \E z \in Parts(t) : u \in Promoted(z)}
<1>1. S \in SUBSET Types /\ {t} \subseteq S
  BY PartsAreTypes, PartOfItself
<1>2. \A v \in S : Promoted(v) \subseteq S
  BY PromotedInParts
<1> HIDE DEF S
<1>3. s \in S
  BY <1>1, <1>2 DEF Parts, Reached
<1> QED BY <1>3 DEF S

\* A struct that is part of what it promotes is embedded in itself, and only such a one.
LEMMA EndlessByEmbedding ==
    ASSUME input \in Inputs, NEW s \in Types
    PROVE  Endless(s) <=> \E w \in Promoted(s) : s \in Parts(w)
<1>1. ASSUME NEW w \in Promoted(s), s \in Parts(w) PROVE Endless(s)
  <2>1. ASSUME NEW S \in SUBSET Types, Promoted(s) \subseteq S, \A v \in S : Promoted(v) \subseteq S
        PROVE  s \in S
    <3>1. {w} \subseteq S
      BY <2>1
    <3> QED BY <1>1, <2>1, <3>1 DEF Parts, Reached
  <2> QED BY <2>1 DEF Endless, Reached
<1>2. ASSUME Endless(s) PROVE \E w \in Promoted(s) : s \in Parts(w)
  <2> DEFINE S == {x \in Types : \E w \in Promoted(s) : x \in Parts(w)}
  <2>1. S \in SUBSET Types
    OBVIOUS
  <2>2. Promoted(s) \subseteq S
    BY PromotedTypes, PartOfItself
  <2>3. \A v \in S : Promoted(v) \subseteq S
    BY PromotedInParts, PromotedTypes
  <2> HIDE DEF S
  <2>4. s \in S
    BY <1>2, <2>1, <2>2, <2>3 DEF Endless, Reached
  <2> QED BY <2>4 DEF S
<1> QED BY <1>1, <1>2

LEMMA EmbeddedPlaces ==
    ASSUME NEW t, NEW e
    PROVE  e \in EmbeddedIn(t) <=>
              \E s \in Parts(t) : \E i \in DOMAIN go[s].fields :
                 Promotes(go[s].fields[i]) /\ e = <<s, i>>
BY DEF EmbeddedIn

(***************************************************************************)
(* In a struct without a collision the parts that write anything form a   *)
(* tree: none is part of itself, and none is embedded twice.               *)
(***************************************************************************)
LEMMA NotAround ==
    ASSUME input \in Inputs, NEW u, ~Collides(u), NEW s \in Parts(u), PlacesOf(s) # {},
           NEW w \in Promoted(s), s \in Parts(w)
    PROVE  FALSE
<1>1. Endless(s)
  BY PartsAreTypes, EndlessByEmbedding
<1> QED BY <1>1 DEF Endless, Collides

LEMMA OneHolder ==
    ASSUME input \in Inputs, NEW u, ~Collides(u), NEW s \in Parts(u), NEW z \in Parts(u),
           NEW i \in DOMAIN go[s].fields, NEW j \in DOMAIN go[z].fields,
           Promotes(go[s].fields[i]), Promotes(go[z].fields[j]),
           Inner(go[s].fields[i]) = Inner(go[z].fields[j]),
           PlacesOf(Inner(go[s].fields[i])) # {}
    PROVE  s = z /\ i = j
<1>1. ~(<<s, i>> # <<z, j>>)
  BY DEF Collides
<1> QED BY <1>1

\* Two parts with a common part are one within the other.
LEMMA PartsAreNested ==
    ASSUME input \in Inputs, NEW u, ~Collides(u), NEW v \in Parts(u), NEW w \in Parts(u),
           NEW x \in Parts(v), x \in Parts(w), PlacesOf(x) # {}
    PROVE  w \in Parts(v) \/ v \in Parts(w)
<1> SUFFICES ASSUME w \notin Parts(v), v \notin Parts(w) PROVE FALSE
  OBVIOUS
<1> DEFINE S == {y \in Parts(v) : PlacesOf(y) = {} \/ y \notin Parts(w)}
<1>1. v \in Types /\ w \in Types
  BY PartsAreTypes
<1>2. S \in SUBSET Types /\ {v} \subseteq S
  BY <1>1, PartsAreTypes, PartOfItself
<1>3. ASSUME NEW y \in S, NEW a \in Promoted(y) PROVE a \in S
  <2>1. a \in Parts(v) /\ y \in Parts(v) /\ y \in Types /\ y \in Parts(u)
    BY PromotedInParts, PartsAreTypes, PartOfPart
  <2>2. SUFFICES ASSUME PlacesOf(a) # {}, a \in Parts(w) PROVE FALSE
    BY <2>1
  <2>3. a # w
    BY <2>1
  <2>4. PICK z \in Parts(w) : a \in Promoted(z)
    BY <1>1, <2>2, <2>3, PartIsPromoted
  <2>5. z \in Types /\ z \in Parts(u)
    BY <2>4, PartsAreTypes, PartOfPart
  <2>6. PICK i \in DOMAIN go[y].fields : Promotes(go[y].fields[i]) /\ a = Inner(go[y].fields[i])
    BY <1>3, <2>1, PromotedTypes
  <2>7. PICK j \in DOMAIN go[z].fields : Promotes(go[z].fields[j]) /\ a = Inner(go[z].fields[j])
    BY <2>4, <2>5, PromotedTypes
  <2>8. y = z
    BY <2>1, <2>2, <2>5, <2>6, <2>7, OneHolder
  <2>9. PlacesOf(y) # {}
    <3>1. a \in Parts(y)
      BY <1>3, <2>1, PartOfItself, PromotedInParts
    <3> QED BY <2>2, <3>1, PlacesOfPart
  <2> QED BY <2>4, <2>8, <2>9
<1> HIDE DEF S
<1>4. x \in S
  BY <1>2, <1>3 DEF Parts, Reached
<1> QED BY <1>4 DEF S

\* What two fields of a struct promote has no part in common.
LEMMA NoCommonPart ==
    ASSUME input \in Inputs, NEW u, ~Collides(u), NEW s \in Parts(u),
           NEW k \in DOMAIN go[s].fields, NEW m \in DOMAIN go[s].fields, k # m,
           Promotes(go[s].fields[k]), Promotes(go[s].fields[m]),
           NEW x \in Parts(Inner(go[s].fields[k])), x \in Parts(Inner(go[s].fields[m])),
           PlacesOf(x) # {}
    PROVE  FALSE
<1> DEFINE v == Inner(go[s].fields[k])
<1> DEFINE w == Inner(go[s].fields[m])
<1>0. s \in Types
  BY PartsAreTypes
<1>1. v \in Promoted(s) /\ w \in Promoted(s) /\ v \in Types /\ w \in Types
  BY <1>0, PromotedTypes
<1>2. v \in Parts(u) /\ w \in Parts(u)
  BY <1>1, PromotedInParts
<1>3. PlacesOf(v) # {} /\ PlacesOf(w) # {}
  BY PlacesOfPart
<1>4. v # w
  BY <1>3, OneHolder
<1>5. ASSUME NEW a \in {v, w}, NEW b \in {v, w}, a # b, b \in Parts(a) PROVE FALSE
  <2>1. PICK z \in Parts(a) : b \in Promoted(z)
    BY <1>1, <1>5, PartIsPromoted
  <2>2. z \in Types /\ z \in Parts(u)
    BY <1>2, <2>1, PartsAreTypes, PartOfPart
  <2>3. PICK j \in DOMAIN go[z].fields : Promotes(go[z].fields[j]) /\ b = Inner(go[z].fields[j])
    BY <2>1, <2>2, PromotedTypes
  <2>4. z = s
    BY <1>3, <2>2, <2>3, OneHolder
  <2>5. PlacesOf(s) # {}
    <3>1. b \in Parts(s)
      BY <1>0, <1>1, PartOfItself, PromotedInParts
    <3> QED BY <1>3, <3>1, PlacesOfPart
  <2> QED BY <1>1, <2>1, <2>4, <2>5, NotAround
<1>6. w \in Parts(v) \/ v \in Parts(w)
  BY <1>2, PartsAreNested
<1> HIDE DEF v, w
<1> QED BY <1>4, <1>5, <1>6

-----------------------------------------------------------------------------
(* Values, by what they contain *)

\* What a value of a type contains at any depth.
Held(t) == Reached(Contains(t), Contains)

LEMMA WrittenFieldsType ==
    ASSUME input \in Inputs, NEW t, NEW place \in PlacesOf(t)
    PROVE  /\ FieldAt(place) \in Field /\ FieldAt(place).type \in Types
           /\ FieldAt(place) \in WrittenFields(t)
<1>1. PICK s \in Parts(t) : \E i \in DOMAIN go[s].fields : place = <<s, i>>
  BY PlaceParts
<1>2. PICK i \in DOMAIN go[s].fields : place = <<s, i>>
  BY <1>1
<1>3. FieldAt(place) = go[s].fields[i]
  BY <1>2 DEF FieldAt
<1>4. FieldAt(place) \in Field
  BY <1>2, <1>3, PartsAreTypes, FieldsIn
<1> QED BY <1>4 DEF Field, WrittenFields

LEMMA ContainsCases ==
    ASSUME input \in Inputs, NEW t \in Types
    PROVE  /\ go[t].kind = "pointer" => Contains(t) = {go[t].elem}
           /\ go[t].kind # "pointer" /\ Named(t) => Contains(t) = {}
           /\ ~Named(t) /\ go[t].kind = "struct" => Contains(t) = {f.type : f \in WrittenFields(t)}
           /\ ~Named(t) /\ go[t].kind \in {"list", "array", "map"} => Contains(t) = {go[t].elem}
           /\ go[t].kind \notin {"pointer", "struct", "list", "array", "map"} => Contains(t) = {}
           /\ Contains(t) \subseteq Types
<1>1. /\ go[t].kind = "pointer" => Contains(t) = {go[t].elem}
      /\ go[t].kind # "pointer" /\ Named(t) => Contains(t) = {}
      /\ ~Named(t) /\ go[t].kind = "struct" => Contains(t) = {f.type : f \in WrittenFields(t)}
      /\ ~Named(t) /\ go[t].kind \in {"list", "array", "map"} => Contains(t) = {go[t].elem}
      /\ go[t].kind \notin {"pointer", "struct", "list", "array", "map"} => Contains(t) = {}
  BY DEF Contains, Element
<1>2. {f.type : f \in WrittenFields(t)} \subseteq Types
  BY WrittenFieldsType DEF WrittenFields
<1>3. go[t].kind \in {"pointer", "list", "array", "map"} => go[t].elem \in Types
  BY InputTypes
<1> QED BY <1>1, <1>2, <1>3

LEMMA HeldIsClosed ==
    ASSUME input \in Inputs, NEW t \in Types
    PROVE  /\ Contains(t) \subseteq Held(t) /\ Held(t) \subseteq Types
           /\ \A v \in Held(t) : Contains(v) \subseteq Held(t)
<1>1. Contains(t) \subseteq Held(t) /\ Held(t) \subseteq Types
  BY ContainsCases DEF Held, Reached
<1>2. ASSUME NEW v \in Held(t), NEW w \in Contains(v) PROVE w \in Held(t)
  <2>1. v \in Types /\ w \in Types
    BY <1>1, ContainsCases
  <2>2. ASSUME NEW S \in SUBSET Types, Contains(t) \subseteq S, \A x \in S : Contains(x) \subseteq S
        PROVE  w \in S
    <3>1. v \in S
      BY <2>2 DEF Held, Reached
    <3> QED BY <2>2, <3>1
  <2> QED BY <2>1, <2>2 DEF Held, Reached
<1> QED BY <1>1, <1>2

LEMMA ValuesAreClosed ==
    ASSUME input \in Inputs, NEW t \in Types
    PROVE  /\ Root(t) \subseteq ValuesIn(t) /\ ValuesIn(t) \subseteq Types
           /\ \A v \in ValuesIn(t) : Contains(v) \subseteq ValuesIn(t)
<1>1. Root(t) \subseteq ValuesIn(t) /\ ValuesIn(t) \subseteq Types
  <2>1. {f.type : f \in WrittenFields(t)} \subseteq Types
    BY WrittenFieldsType DEF WrittenFields
  <2> QED BY <2>1 DEF Root, ValuesIn, Reached
<1>2. ASSUME NEW v \in ValuesIn(t), NEW w \in Contains(v) PROVE w \in ValuesIn(t)
  <2>1. v \in Types /\ w \in Types
    BY <1>1, ContainsCases
  <2>2. ASSUME NEW S \in SUBSET Types, Root(t) \subseteq S, \A x \in S : Contains(x) \subseteq S
        PROVE  w \in S
    <3>1. v \in S
      BY <2>2 DEF ValuesIn, Reached
    <3> QED BY <2>2, <3>1
  <2> QED BY <2>1, <2>2 DEF ValuesIn, Reached
<1> QED BY <1>1, <1>2

LEMMA FieldsAreValues ==
    ASSUME input \in Inputs, NEW t \in Types, NEW u \in Structs(t), NEW f \in WrittenFields(u)
    PROVE  f.type \in ValuesIn(t)
<1>1. CASE u \in Inlined(t)
  <2>1. u \in ValuesIn(t) /\ ~Named(u) /\ go[u].kind = "struct"
    BY <1>1 DEF Inlined, Structs
  <2>2. u \in Types /\ f.type \in Contains(u)
    BY <2>1, ValuesAreClosed, ContainsCases
  <2> QED BY <2>1, <2>2, ValuesAreClosed
<1>2. CASE u = t
  <2>1. f.type \in Root(t)
    BY <1>2 DEF Root, Structs
  <2> QED BY <2>1, ValuesAreClosed
<1> QED BY <1>1, <1>2 DEF Structs

\* What is said of the types does not change.
LEMMA SameSight ==
    ASSUME input' = input
    PROVE  /\ \A t : Contains(t)' = Contains(t) /\ Held(t)' = Held(t)
           /\ \A t : ValuesIn(t)' = ValuesIn(t) /\ Structs(t)' = Structs(t) /\ Inlined(t)' = Inlined(t)
           /\ \A t : Collides(t)' <=> Collides(t)
           /\ \A t : Endless(t)' <=> Endless(t)
           /\ \A t : EmbeddedIn(t)' = EmbeddedIn(t)
           /\ \A t : Indescribable(t)' <=> Indescribable(t)
           /\ \A t : Bottomless(t)' <=> Bottomless(t)
           /\ BadModels' <=> BadModels
<1>1. go' = go /\ models' = models
  BY SameTypes
<1>2. \A t : Contains(t)' = Contains(t)
  BY <1>1, SameTypes DEF Contains, Element
<1>3. \A t : Held(t)' = Held(t)
  BY <1>2 DEF Held, Reached
<1>4. \A t : ValuesIn(t)' = ValuesIn(t)
  BY <1>1, <1>2, SameTypes DEF ValuesIn, Reached, Root
<1>5. \A t : Inlined(t)' = Inlined(t)
  BY <1>1, <1>4, SameTypes DEF Inlined
<1>6. \A t : Structs(t)' = Structs(t)
  BY <1>1, <1>5 DEF Structs
<1>7. \A t : Promoted(t)' = Promoted(t)
  BY <1>1, SameTypes DEF Promoted, FieldsOf
<1>8. \A t : Endless(t)' <=> Endless(t)
  BY <1>7 DEF Endless, Reached
<1>9. \A t : EmbeddedIn(t)' = EmbeddedIn(t)
  BY <1>1, SameTypes DEF EmbeddedIn
<1>10. \A t : Collides(t)' <=> Collides(t)
  <2>1. \A s : Reached(Promoted(s), Promoted)' = Reached(Promoted(s), Promoted)
    BY <1>7 DEF Reached
  <2>2. ASSUME NEW t
        PROVE  (\E p, q \in PlacesOf(t) : p # q /\ FieldAt(p).property = FieldAt(q).property)'
                 <=> \E p, q \in PlacesOf(t) : p # q /\ FieldAt(p).property = FieldAt(q).property
    BY SameTypes
  <2>3. ASSUME NEW t
        PROVE  (\E s, u \in Parts(t) : \E i \in DOMAIN go[s].fields, j \in DOMAIN go[u].fields :
                  /\ <<s, i>> # <<u, j>>
                  /\ Promotes(go[s].fields[i]) /\ Promotes(go[u].fields[j])
                  /\ Inner(go[s].fields[i]) = Inner(go[u].fields[j])
                  /\ PlacesOf(Inner(go[s].fields[i])) # {})'
                <=> \E s, u \in Parts(t) : \E i \in DOMAIN go[s].fields, j \in DOMAIN go[u].fields :
                  /\ <<s, i>> # <<u, j>>
                  /\ Promotes(go[s].fields[i]) /\ Promotes(go[u].fields[j])
                  /\ Inner(go[s].fields[i]) = Inner(go[u].fields[j])
                  /\ PlacesOf(Inner(go[s].fields[i])) # {}
    <3>1. \A s : \A i : /\ Promotes(go[s].fields[i])' <=> Promotes(go[s].fields[i])
                        /\ Inner(go[s].fields[i])' = Inner(go[s].fields[i])
                        /\ PlacesOf(Inner(go[s].fields[i]))' = PlacesOf(Inner(go[s].fields[i]))
      BY <1>1, SameTypes
    <3> DEFINE Both(s, i, u, j) ==
                  /\ <<s, i>> # <<u, j>>
                  /\ Promotes(go[s].fields[i]) /\ Promotes(go[u].fields[j])
                  /\ Inner(go[s].fields[i]) = Inner(go[u].fields[j])
                  /\ PlacesOf(Inner(go[s].fields[i])) # {}
    <3>2. \A s, i, u, j : Both(s, i, u, j)' <=> Both(s, i, u, j)
      BY <3>1
    <3>3. Parts(t)' = Parts(t) /\ \A s : (DOMAIN go[s].fields)' = DOMAIN go[s].fields
      BY <1>1, SameTypes
    <3> HIDE DEF Both
    <3>4. (\E s, u \in Parts(t) : \E i \in DOMAIN go[s].fields, j \in DOMAIN go[u].fields : Both(s, i, u, j))'
            <=> \E s, u \in Parts(t) : \E i \in DOMAIN go[s].fields, j \in DOMAIN go[u].fields : Both(s, i, u, j)
      BY <3>2, <3>3
    <3> QED BY <3>4 DEF Both
  <2>4. ASSUME NEW t
        PROVE  (\E s \in Parts(t) : s \in Reached(Promoted(s), Promoted) /\ PlacesOf(s) # {})'
                <=> \E s \in Parts(t) : s \in Reached(Promoted(s), Promoted) /\ PlacesOf(s) # {}
    BY <2>1, SameTypes
  <2> QED BY <2>2, <2>3, <2>4 DEF Collides
<1>11. \A f : NoEnum(f)' <=> NoEnum(f)
  BY <1>1, SameTypes DEF NoEnum
<1>12. \A t : Indescribable(t)' <=> Indescribable(t)
  <2>1. \A t : Reached(Contains(t), Contains)' = Reached(Contains(t), Contains)
    BY <1>3 DEF Held
  <2> QED BY <1>1, <1>5, <1>6, <1>10, <1>11, <2>1, SameTypes DEF Indescribable, Mute
<1>13. \A t : Bottomless(t)' <=> Bottomless(t)
  <2>1. \A t : NotStruct(t)' = NotStruct(t)
    BY <1>1, <1>2 DEF NotStruct
  <2>2. \A t : Reached(NotStruct(t), NotStruct)' = Reached(NotStruct(t), NotStruct)
    BY <2>1 DEF Reached
  <2>3. \A t : Reached(Promoted(t), Promoted)' = Reached(Promoted(t), Promoted)
    BY <1>7 DEF Reached
  <2> QED BY <1>4, <1>6, <2>2, <2>3, SameTypes DEF Bottomless, EmbedsItself, Circular
<1>14. BadModels' <=> BadModels
  BY <1>1 DEF BadModels
<1> QED BY <1>2, <1>3, <1>4, <1>5, <1>6, <1>8, <1>9, <1>10, <1>12, <1>13, <1>14

-----------------------------------------------------------------------------
(* Which call was made by which *)

\* Two calls in progress, the outer one first; and those without the innermost.
CallPairs ==
    UNION {{<<stack[i], stack[j]>> : j \in {k \in DOMAIN stack : i < k}} : i \in DOMAIN stack}

Lower ==
    UNION {{<<stack[i], stack[j]>> : j \in {k \in 1 .. Len(stack) - 1 : i < k}} :
              i \in 1 .. Len(stack) - 1}

\* A step of deriver: these calls take the innermost's place, in this order.
Stacks(new, order) ==
    /\ Goes(new)
    /\ CallPairs = Lower \cup (Below \X {Top})
    /\ CallPairs' = Lower \cup (Below \X new) \cup order
    /\ Lower \subseteq Below \X Below

LEMMA PairsBefore ==
    ASSUME stack \in Seq(Frame), stack # <<>>
    PROVE  /\ CallPairs = Lower \cup (Below \X {Top})
           /\ Lower \subseteq Below \X Below
<1> DEFINE n == Len(stack)
<1>1. n \in Nat \ {0} /\ DOMAIN stack = 1 .. n
  BY EmptySeq, LenProperties
<1>2. Lower \subseteq CallPairs
  BY <1>1 DEF Lower, CallPairs
<1>3. Below \X {Top} \subseteq CallPairs
  <2> SUFFICES ASSUME NEW i \in 1 .. n - 1 PROVE <<stack[i], Top>> \in CallPairs
    BY DEF Below
  <2>1. i \in DOMAIN stack /\ n \in DOMAIN stack /\ i < n
    BY <1>1
  <2> QED BY <2>1 DEF CallPairs, Top
<1>4. ASSUME NEW i \in DOMAIN stack, NEW j \in DOMAIN stack, i < j
      PROVE  <<stack[i], stack[j]>> \in Lower \cup (Below \X {Top})
  <2>1. i \in 1 .. n - 1 /\ (j = n \/ j \in 1 .. n - 1)
    BY <1>1, <1>4
  <2>2. CASE j = n
    BY <2>1, <2>2 DEF Below, Top
  <2>3. CASE j \in 1 .. n - 1
    BY <1>4, <2>1, <2>3 DEF Lower
  <2> QED BY <2>1, <2>2, <2>3
<1>5. CallPairs \subseteq Lower \cup (Below \X {Top})
  BY <1>4 DEF CallPairs
<1>6. Lower \subseteq Below \X Below
  BY DEF Lower, Below
<1> QED BY <1>2, <1>3, <1>5, <1>6

LEMMA PairsAfter ==
    ASSUME stack \in Seq(Frame), stack # <<>>, NEW frames \in Seq(Frame), Become(frames),
           Len(frames) <= 2
    PROVE  CallPairs' = Lower \cup (Below \X {frames[j] : j \in DOMAIN frames})
                              \cup (IF Len(frames) = 2 THEN {<<frames[1], frames[2]>>} ELSE {})
<1> DEFINE n == Len(stack)
<1> DEFINE new == {frames[j] : j \in DOMAIN frames}
<1> DEFINE order == IF Len(frames) = 2 THEN {<<frames[1], frames[2]>>} ELSE {}
<1>1. /\ n \in Nat \ {0} /\ Len(frames) \in Nat
      /\ Len(stack') = n - 1 + Len(frames)
      /\ \A i \in DOMAIN stack' :
            \/ i < n /\ i \in DOMAIN stack /\ stack'[i] = stack[i]
            \/ \E j \in DOMAIN frames : i = n - 1 + j /\ stack'[i] = frames[j]
      /\ \A j \in DOMAIN frames : stack'[n - 1 + j] = frames[j]
      /\ stack' \in Seq(Frame)
  <2> HIDE DEF Frame
  <2> QED BY BecomeFrames
<1>2. /\ DOMAIN stack = 1 .. n /\ DOMAIN stack' = 1 .. (n - 1 + Len(frames))
      /\ DOMAIN frames = 1 .. Len(frames)
  BY <1>1, LenProperties
<1>3. \A i \in 1 .. n - 1 : i \in DOMAIN stack' /\ stack'[i] = stack[i]
  <2> SUFFICES ASSUME NEW i \in 1 .. n - 1 PROVE i \in DOMAIN stack' /\ stack'[i] = stack[i]
    OBVIOUS
  <2>1. i \in DOMAIN stack' /\ \A j \in DOMAIN frames : i # n - 1 + j
    BY <1>1, <1>2
  <2> QED BY <1>1, <2>1
<1> HIDE DEF n
<1>4. Lower \subseteq CallPairs'
  <2> SUFFICES ASSUME NEW i \in 1 .. n - 1, NEW j \in 1 .. n - 1, i < j
               PROVE  <<stack[i], stack[j]>> \in CallPairs'
    BY DEF Lower, n
  <2> QED BY <1>3 DEF CallPairs
<1>5. Below \X new \subseteq CallPairs'
  <2> SUFFICES ASSUME NEW i \in 1 .. n - 1, NEW j \in DOMAIN frames
               PROVE  <<stack[i], frames[j]>> \in CallPairs'
    BY DEF Below, n
  <2>1. i \in DOMAIN stack' /\ n - 1 + j \in DOMAIN stack' /\ i < n - 1 + j
    BY <1>1, <1>2, <1>3
  <2>2. stack'[i] = stack[i] /\ stack'[n - 1 + j] = frames[j]
    BY <1>1, <1>3
  <2> QED BY <2>1, <2>2 DEF CallPairs
<1>6. order \subseteq CallPairs'
  <2> SUFFICES ASSUME Len(frames) = 2 PROVE <<frames[1], frames[2]>> \in CallPairs'
    OBVIOUS
  <2>1. 1 \in DOMAIN frames /\ 2 \in DOMAIN frames
    BY <1>2
  <2>2. n \in DOMAIN stack' /\ n + 1 \in DOMAIN stack' /\ n < n + 1
    BY <1>1, <1>2
  <2>3. stack'[n - 1 + 1] = frames[1] /\ stack'[n - 1 + 2] = frames[2]
    BY <1>1, <2>1
  <2>4. n - 1 + 1 = n /\ n - 1 + 2 = n + 1
    BY <1>1
  <2> QED BY <2>2, <2>3, <2>4 DEF CallPairs
<1>7. ASSUME NEW i \in DOMAIN stack', NEW j \in DOMAIN stack', i < j
      PROVE  <<stack'[i], stack'[j]>> \in Lower \cup (Below \X new) \cup order
  <2>1. CASE j < n
    <3>1. i \in 1 .. n - 1 /\ j \in 1 .. n - 1
      BY <1>1, <1>2, <1>7, <2>1
    <3> QED BY <1>3, <1>7, <3>1 DEF Lower, n
  <2>2. CASE ~(j < n)
    <3>1. PICK b \in DOMAIN frames : j = n - 1 + b /\ stack'[j] = frames[b]
      BY <1>1, <2>2
    <3>2. CASE i < n
      <4>1. i \in 1 .. n - 1
        BY <1>1, <1>2, <3>2
      <4>2. stack'[i] \in Below /\ stack'[j] \in new
        BY <1>3, <3>1, <4>1 DEF Below, n
      <4> QED BY <4>2
    <3>3. CASE ~(i < n)
      <4>1. PICK a \in DOMAIN frames : i = n - 1 + a /\ stack'[i] = frames[a]
        BY <1>1, <3>3
      <4>2. a = 1 /\ b = 2 /\ Len(frames) = 2
        BY <1>1, <1>2, <1>7, <3>1, <4>1
      <4> QED BY <3>1, <4>1, <4>2
    <3> QED BY <3>2, <3>3
  <2> QED BY <2>1, <2>2
<1> HIDE DEF new, order
<1>8. CallPairs' \subseteq Lower \cup (Below \X new) \cup order
  BY <1>7 DEF CallPairs
<1> QED BY <1>4, <1>5, <1>6, <1>8 DEF new, order

LEMMA StacksOn ==
    ASSUME stack \in Seq(Frame), stack # <<>>, OnlyInnermost
    PROVE  /\ Become(<<>>) => Stacks({}, {})
           /\ \A f \in Frame : Become(<<f>>) => Stacks({f}, {})
           /\ \A f, g \in Frame : f.do # "of" /\ Become(<<f, g>>) => Stacks({f, g}, {<<f, g>>})
<1>1. ASSUME Become(<<>>) PROVE Stacks({}, {})
  <2> DEFINE frames == <<>>
  <2>1. frames \in Seq(Frame) /\ DOMAIN frames = {} /\ Become(frames) /\ Len(frames) = 0
    BY <1>1
  <2> HIDE DEF frames, Frame
  <2>2. {frames[j] : j \in DOMAIN frames} = {}
    BY <2>1
  <2>3. CallPairs' = Lower \cup (Below \X {frames[j] : j \in DOMAIN frames})
                       \cup (IF Len(frames) = 2 THEN {<<frames[1], frames[2]>>} ELSE {})
    <3>1. Len(frames) <= 2
      BY <2>1
    <3> QED BY <2>1, <3>1, PairsAfter
  <2>4. CallPairs' = Lower \cup (Below \X {}) \cup {}
    BY <2>1, <2>2, <2>3
  <2> QED BY <1>1, <2>4, PairsBefore, GoesOn DEF Stacks
<1>2. ASSUME NEW f \in Frame, Become(<<f>>) PROVE Stacks({f}, {})
  <2> DEFINE frames == <<f>>
  <2> HIDE DEF Frame
  <2>1. /\ frames \in Seq(Frame) /\ DOMAIN frames = {1} /\ Become(frames)
        /\ Len(frames) = 1 /\ frames[1] = f
    BY <1>2
  <2> HIDE DEF frames
  <2>2. {frames[j] : j \in DOMAIN frames} = {f}
    BY <2>1
  <2>3. CallPairs' = Lower \cup (Below \X {frames[j] : j \in DOMAIN frames})
                       \cup (IF Len(frames) = 2 THEN {<<frames[1], frames[2]>>} ELSE {})
    <3>1. Len(frames) <= 2
      BY <2>1
    <3> QED BY <2>1, <3>1, PairsAfter
  <2>4. CallPairs' = Lower \cup (Below \X {f}) \cup {}
    BY <2>1, <2>2, <2>3
  <2> QED BY <1>2, <2>4, PairsBefore, GoesOn DEF Stacks
<1>3. ASSUME NEW f \in Frame, NEW g \in Frame, f.do # "of", Become(<<f, g>>)
      PROVE  Stacks({f, g}, {<<f, g>>})
  <2> DEFINE frames == <<f, g>>
  <2> HIDE DEF Frame
  <2>1. /\ frames \in Seq(Frame) /\ DOMAIN frames = {1, 2} /\ Become(frames)
        /\ Len(frames) = 2 /\ frames[1] = f /\ frames[2] = g
    BY <1>3
  <2> HIDE DEF frames
  <2>2. {frames[j] : j \in DOMAIN frames} = {f, g}
    BY <2>1
  <2>3. CallPairs' = Lower \cup (Below \X {frames[j] : j \in DOMAIN frames})
                       \cup (IF Len(frames) = 2 THEN {<<frames[1], frames[2]>>} ELSE {})
    <3>1. Len(frames) <= 2
      BY <2>1
    <3> QED BY <2>1, <3>1, PairsAfter
  <2>4. CallPairs' = Lower \cup (Below \X {f, g}) \cup {<<f, g>>}
    BY <2>1, <2>2, <2>3
  <2> QED BY <1>3, <2>4, PairsBefore, GoesOn DEF Stacks
<1> HIDE DEF Frame
<1> QED BY <1>1, <1>2, <1>3

-----------------------------------------------------------------------------
(* The steps of deriver, by the calls they end and begin *)

\* A node is written at a path without one.
Adds(path, node) ==
    /\ path \notin DOMAIN nodes
    /\ DOMAIN nodes' = DOMAIN nodes \cup {path}
    /\ nodes'[path] = node
    /\ \A p \in DOMAIN nodes : nodes'[p] = nodes[p]

LEMMA OfCall ==
    ASSUME ModelSchemasInv, Shape, Runs("of")
    PROVE  /\ stack \in Seq(Frame) /\ stack # <<>> /\ OnlyInnermost /\ input \in Inputs
           /\ Top.do = "of" /\ Top \in Calls /\ Top.type \in Types /\ Top.path \in Seq(Step)
           /\ Top.enum \in {"none", "texts", "integers"} /\ Top.path \notin DOMAIN nodes
<1>1. /\ stack \in Seq(Frame) /\ stack # <<>> /\ OnlyInnermost /\ input \in Inputs
      /\ Top.do = "of" /\ Top.type \in Types /\ Top.path \in Seq(Step)
      /\ Top.enum \in {"none", "texts", "integers"}
  BY ShapedCall
<1>2. Top \in Calls
  BY <1>1, TopType DEF Calls, Top
<1> QED BY <1>1, <1>2 DEF Shape, Unwritten

LEMMA DereferenceView ==
    ASSUME ModelSchemasInv, Shape, Dereference
    PROVE  \E f, g :
              /\ Stacks({f, g}, {<<f, g>>})
              /\ f.do = "nullable" /\ f.path = Top.path
              /\ g.do = "of" /\ g.path = Top.path /\ g.type = go[Top.type].elem /\ g.enum = Top.enum
              /\ Top.do = "of" /\ go[Top.type].kind = "pointer"
              /\ UNCHANGED <<locals, inline, seen, nodes>>
<1> DEFINE f == NullableFrame(Top.path)
<1> DEFINE g == OfFrame(go[Top.type].elem, Top.enum, Top.path)
<1>1. /\ Runs("of") /\ go[Top.type].kind = "pointer" /\ Become(<<f, g>>)
      /\ UNCHANGED <<locals, inline, seen, nodes>>
  BY DEF Dereference
<1>2. /\ f.do = "nullable" /\ f.path = Top.path
      /\ g.do = "of" /\ g.path = Top.path /\ g.type = go[Top.type].elem /\ g.enum = Top.enum
  BY DEF NullableFrame, OfFrame
<1>3. f \in Frame /\ g \in Frame
  <2>1. go[Top.type].elem \in Types
    BY <1>1, OfCall, InputTypes
  <2> QED BY <1>1, <2>1, OfCall, FrameTypes
<1> HIDE DEF f, g
<1>4. Stacks({f, g}, {<<f, g>>})
  BY <1>1, <1>2, <1>3, OfCall, StacksOn
<1> QED BY <1>1, <1>2, <1>4, OfCall

\* Refer and WriteScalar.
LEMMA LeafView ==
    ASSUME ModelSchemasInv, Shape, Refer \/ WriteScalar, ~Refuse
    PROVE  \E node :
              /\ Stacks({}, {}) /\ Adds(Top.path, node)
              /\ node.of = Top.type /\ node.null = FALSE /\ node.repeats = FALSE
              /\ \/ /\ Named(Top.type) /\ node.kind = "ref" /\ node.enum = FALSE
                 \/ /\ ~Named(Top.type) /\ node.kind = SchemaKind(go[Top.type].kind)
                    /\ go[Top.type].kind \in {"time", "any", "string", "integer", "byte", "other"}
                    /\ node.kind \notin {"ref", "array", "object"}
                    /\ node.enum = (Top.enum # "none") /\ ~EnumRefused(node.kind, Top.enum)
              /\ Top.do = "of" /\ go[Top.type].kind # "pointer"
              /\ UNCHANGED <<locals, inline, seen>>
<1>1. CASE Refer
  <2> DEFINE node == Written("ref", Top.type)
  <2>1. /\ Runs("of") /\ go[Top.type].kind # "pointer" /\ Named(Top.type) /\ Become(<<>>)
        /\ Put(Top.path, node) /\ UNCHANGED <<locals, inline, seen>>
    BY <1>1 DEF Refer
  <2>2. /\ node.of = Top.type /\ node.null = FALSE /\ node.kind = "ref"
        /\ node.enum = FALSE /\ node.repeats = FALSE
    BY DEF Written
  <2> HIDE DEF node
  <2>3. Stacks({}, {})
    BY <2>1, OfCall, StacksOn
  <2>4. Adds(Top.path, node)
    BY <2>1, OfCall DEF Adds, Put
  <2> QED BY <2>1, <2>2, <2>3, <2>4, OfCall
<1>2. CASE WriteScalar
  <2> DEFINE kind == SchemaKind(go[Top.type].kind)
  <2> DEFINE node == [Written(kind, Top.type) EXCEPT !.enum = (Top.enum # "none")]
  <2>1. /\ Runs("of") /\ go[Top.type].kind \in {"time", "any", "string", "integer", "byte", "other"}
        /\ ~Named(Top.type) /\ ~EnumRefused(kind, Top.enum)
        /\ Put(Top.path, node) /\ Become(<<>>) /\ UNCHANGED <<locals, inline, seen>>
    BY <1>2 DEF WriteScalar, Describes
  <2>2. kind \notin {"ref", "array", "object"}
    BY <2>1 DEF SchemaKind
  <2> HIDE DEF kind
  <2>3. /\ node.of = Top.type /\ node.null = FALSE /\ node.kind = kind
        /\ node.enum = (Top.enum # "none") /\ node.repeats = FALSE
    BY DEF Written
  <2> HIDE DEF node
  <2>4. Stacks({}, {})
    BY <2>1, OfCall, StacksOn
  <2>5. Adds(Top.path, node)
    BY <2>1, OfCall DEF Adds, Put
  <2> QED BY <2>1, <2>2, <2>3, <2>4, <2>5, OfCall DEF kind
<1> QED BY <1>1, <1>2

LEMMA ElementsView ==
    ASSUME ModelSchemasInv, Shape, EnterElements
    PROVE  \E f, g, node, step :
              /\ Stacks({f, g}, {<<f, g>>}) /\ Adds(Top.path, node)
              /\ f.do = "elements" /\ f.enum = Top.enum
              /\ g.do = "of" /\ g.path = Append(Top.path, step) /\ g.type = go[Top.type].elem
              /\ g.enum = "none" /\ step \in Step
              /\ node.of = Top.type /\ node.null = FALSE /\ node.repeats = FALSE /\ node.enum = FALSE
              /\ node.kind = (IF go[Top.type].kind = "map" THEN "object" ELSE "array")
              /\ Top.do = "of" /\ ~Named(Top.type) /\ go[Top.type].kind \in {"list", "array", "map"}
              /\ go[Top.type].kind = "list" => go[go[Top.type].elem].kind # "byte"
              /\ go[Top.type].kind = "map" => go[Top.type].textKeys
              /\ UNCHANGED <<locals, inline, seen>>
<1> DEFINE path == Top.path
<1> DEFINE t == Top.type
<1> DEFINE step == IF go[t].kind = "map" THEN Values ELSE Items
<1> DEFINE f == ElementsFrame(Top.enum)
<1> DEFINE below == Append(path, step)
<1> DEFINE g == OfFrame(go[t].elem, "none", below)
<1> DEFINE node == Written(IF go[t].kind = "map" THEN "object" ELSE "array", t)
<1>1. /\ Runs("of") /\ ~Named(t) /\ go[t].kind \in {"list", "array", "map"} /\ Become(<<f, g>>)
      /\ Put(path, node) /\ UNCHANGED <<locals, inline, seen>>
      /\ go[t].kind = "list" => go[go[t].elem].kind # "byte"
      /\ go[t].kind = "map" => go[t].textKeys
  BY DEF EnterElements, Describes
<1>2. t \in Types /\ path \in Seq(Step) /\ input \in Inputs /\ go[t].elem \in Types /\ step \in Step
         /\ Top.enum \in {"none", "texts", "integers"}
  BY <1>1, OfCall, InputTypes DEF Step
<1>3. below \in Seq(Step)
  BY <1>2
<1>4. f \in Frame /\ g \in Frame
  <2> HIDE DEF below
  <2> QED BY <1>2, <1>3 DEF ElementsFrame, OfFrame, Frame
<1>5. /\ f.do = "elements" /\ f.enum = Top.enum
      /\ g.do = "of" /\ g.path = below /\ g.type = go[t].elem /\ g.enum = "none"
  BY DEF ElementsFrame, OfFrame
<1>6. /\ node.of = t /\ node.null = FALSE /\ node.repeats = FALSE /\ node.enum = FALSE
      /\ node.kind = (IF go[t].kind = "map" THEN "object" ELSE "array")
  BY DEF Written
<1> HIDE DEF f, g, node, below, step, t, path
<1>7. Stacks({f, g}, {<<f, g>>})
  BY <1>1, <1>4, <1>5, OfCall, StacksOn
<1>8. Adds(path, node)
  BY <1>1, OfCall DEF Adds, Put, path
<1>9. Top.do = "of"
  BY <1>1, OfCall
<1> QED BY <1>1, <1>2, <1>5, <1>6, <1>7, <1>8, <1>9 DEF below, t, path

LEMMA EndElementsView ==
    ASSUME ModelSchemasInv, Shape, EndElements, ~Refuse
    PROVE  /\ Stacks({}, {}) /\ Top.do = "elements" /\ Top.enum = "none"
           /\ UNCHANGED <<locals, inline, seen, nodes>>
<1>1. /\ Runs("elements") /\ Top.enum = "none" /\ Become(<<>>)
      /\ UNCHANGED <<locals, inline, seen, nodes>>
  BY DEF EndElements
<1> QED BY <1>1, ShapedCall, StacksOn

LEMMA StructView ==
    ASSUME ModelSchemasInv, Shape, EnterStruct, ~Refuse
    PROVE  \E f, g, node :
              /\ Stacks({f, g}, {<<f, g>>}) /\ Adds(Top.path, node)
              /\ f.do = "close" /\ f.type = Top.type
              /\ g = FieldsFrame(Top.type, 1, Top.path)
              /\ node = Written("object", Top.type)
              /\ Top.do = "of" /\ ~Named(Top.type) /\ go[Top.type].kind = "struct"
              /\ inline' = inline \cup {Top.type}
              /\ UNCHANGED <<locals, seen>>
<1> DEFINE f == CloseFrame(Top.type)
<1> DEFINE g == FieldsFrame(Top.type, 1, Top.path)
<1> DEFINE node == Written("object", Top.type)
<1>1. /\ Runs("of") /\ ~Named(Top.type) /\ go[Top.type].kind = "struct" /\ Become(<<f, g>>)
      /\ Put(Top.path, node) /\ inline' = inline \cup {Top.type} /\ UNCHANGED <<locals, seen>>
  BY DEF EnterStruct, Describes
<1>2. f.do = "close" /\ f.type = Top.type
  BY DEF CloseFrame
<1>3. f \in Frame /\ g \in Frame
  BY <1>1, OfCall, FrameTypes
<1>4. Stacks({f, g}, {<<f, g>>})
  <2> HIDE DEF f, g
  <2> QED BY <1>1, <1>2, <1>3, OfCall, StacksOn
<1>5. Adds(Top.path, node)
  <2> HIDE DEF node
  <2> QED BY <1>1, OfCall DEF Adds, Put
<1> QED BY <1>1, <1>2, <1>4, <1>5, OfCall

LEMMA CloseView ==
    ASSUME ModelSchemasInv, Shape, CloseStruct
    PROVE  /\ Stacks({}, {}) /\ Top.do = "close" /\ inline' = inline \ {Top.type}
           /\ UNCHANGED <<locals, seen, nodes>>
<1>1. /\ Runs("close") /\ Become(<<>>) /\ inline' = inline \ {Top.type}
      /\ UNCHANGED <<locals, seen, nodes>>
  BY DEF CloseStruct, Outside
<1> QED BY <1>1, ShapedCall, StacksOn

LEMMA MakeNullableView ==
    ASSUME ModelSchemasInv, Shape, MakeNullable
    PROVE  \E new :
              /\ Stacks({}, {}) /\ Top.do = "nullable" /\ Top.path \in DOMAIN nodes
              /\ DOMAIN nodes' = DOMAIN nodes /\ nodes'[Top.path] = new
              /\ \A p \in DOMAIN nodes : p # Top.path => nodes'[p] = nodes[p]
              /\ new.kind = nodes[Top.path].kind /\ new.of = nodes[Top.path].of
              /\ new.enum = nodes[Top.path].enum
              /\ new.null = (new.kind # "any")
              /\ new.repeats = (nodes[Top.path].repeats \/ (nodes[Top.path].enum /\ nodes[Top.path].null))
              /\ UNCHANGED <<locals, inline, seen>>
<1> DEFINE node == nodes[Top.path]
<1> DEFINE new == [node EXCEPT !.null = (node.kind # "any"),
                               !.repeats = node.repeats \/ (node.enum /\ node.null)]
<1>1. /\ Runs("nullable") /\ Put(Top.path, new) /\ Become(<<>>) /\ UNCHANGED <<locals, inline, seen>>
  BY DEF MakeNullable
<1>2. Stacks({}, {}) /\ Top.do = "nullable"
  BY <1>1, ShapedCall, StacksOn
<1>3. Top.path \in DOMAIN nodes
  BY <1>2 DEF Shape, NullablesKnown, Coming, Goes, OnlyInnermost, Stacks
<1>4. node \in Node
  BY <1>1, <1>3, ShapedCall
<1>5. /\ new.of = node.of /\ new.kind = node.kind /\ new.null = (node.kind # "any")
      /\ new.enum = node.enum /\ new.repeats = (node.repeats \/ (node.enum /\ node.null))
  BY <1>4 DEF Node
<1>6. /\ DOMAIN nodes' = DOMAIN nodes /\ nodes'[Top.path] = new
      /\ \A p \in DOMAIN nodes : p # Top.path => nodes'[p] = nodes[p]
  <2> HIDE DEF new
  <2> QED BY <1>1, <1>3 DEF Put
<1> HIDE DEF new
<1> QED BY <1>1, <1>2, <1>3, <1>5, <1>6

LEMMA EndFieldsView ==
    ASSUME ModelSchemasInv, Shape, EndFields
    PROVE  /\ Stacks({}, {}) /\ Top.do = "fields" /\ Top.next > Len(go[Top.type].fields)
           /\ Runs("fields") /\ UNCHANGED <<locals, inline, seen, nodes>>
<1>1. /\ Runs("fields") /\ Top.next > Len(go[Top.type].fields) /\ Become(<<>>)
      /\ UNCHANGED <<locals, inline, seen, nodes>>
  BY DEF EndFields
<1> QED BY <1>1, FieldsCall, StacksOn

LEMMA SkipFieldView ==
    ASSUME ModelSchemasInv, Shape, SkipField
    PROVE  /\ Stacks({GoOn}, {}) /\ Runs("fields") /\ AtField
           /\ ~Promotes(CurrentField) /\ ~Writes(CurrentField)
           /\ UNCHANGED <<locals, inline, seen, nodes>>
<1>1. /\ AtField /\ Runs("fields") /\ ~Promotes(CurrentField) /\ ~Writes(CurrentField)
      /\ Become(<<GoOn>>) /\ UNCHANGED <<locals, inline, seen, nodes>>
  BY DEF SkipField, AtField
<1>2. GoOn \in Frame
  BY <1>1, AtFieldType
<1>3. Stacks({GoOn}, {})
  BY <1>1, <1>2, FieldsCall, StacksOn
<1> QED BY <1>1, <1>3

LEMMA PromoteFieldsView ==
    ASSUME ModelSchemasInv, Shape, PromoteFields
    PROVE  /\ LET f == FieldsFrame(Inner(CurrentField), 1, Top.path)
              IN  Stacks({GoOn, f}, {<<GoOn, f>>})
           /\ Runs("fields") /\ AtField /\ Promotes(CurrentField)
           /\ Inner(CurrentField) \in Types
           /\ UNCHANGED <<locals, inline, seen, nodes>>
<1> DEFINE f == FieldsFrame(Inner(CurrentField), 1, Top.path)
<1>1. /\ AtField /\ Runs("fields") /\ Promotes(CurrentField)
      /\ Become(<<GoOn, f>>) /\ UNCHANGED <<locals, inline, seen, nodes>>
  BY DEF PromoteFields, AtField
<1>2. GoOn \in Frame /\ GoOn.do = "fields"
  <2>1. GoOn \in Frame
    BY <1>1, AtFieldType
  <2> QED BY <2>1 DEF GoOn, FieldsFrame
<1>3. Inner(CurrentField) \in Types
  BY <1>1, AtFieldType, AtCall, InnerType
<1>4. f \in Frame
  BY <1>1, <1>3, FieldsCall, FrameTypes
<1> HIDE DEF f
<1>5. Stacks({GoOn, f}, {<<GoOn, f>>})
  BY <1>1, <1>2, <1>4, FieldsCall, StacksOn
<1> QED BY <1>1, <1>3, <1>5 DEF f

LEMMA WriteFieldView ==
    ASSUME ModelSchemasInv, Shape, WriteField, ~Refuse
    PROVE  \E f, path :
              /\ Stacks({GoOn, f}, {<<GoOn, f>>})
              /\ f.do = "of" /\ f.type = CurrentField.type /\ f.enum = CurrentField.enum /\ f.path = path
              /\ path = Append(Top.path, CurrentField.property)
              /\ path \notin seen /\ seen' = seen \cup {path}
              /\ path \notin DOMAIN nodes /\ path \in Seq(Step)
              /\ Runs("fields") /\ AtField /\ Writes(CurrentField) /\ ~CurrentField.unknown
              /\ CurrentField \in Field
              /\ UNCHANGED <<locals, inline, nodes>>
<1> DEFINE field == CurrentField
<1> DEFINE p == Top.path
<1> DEFINE path == Append(p, field.property)
<1> DEFINE f == OfFrame(field.type, field.enum, path)
<1>1. /\ AtField /\ Runs("fields") /\ Writes(field) /\ path \notin seen /\ ~field.unknown
      /\ Become(<<GoOn, f>>) /\ UNCHANGED <<locals, inline, nodes>> /\ seen' = seen \cup {path}
  BY DEF WriteField, AtField
<1>2. GoOn \in Frame /\ GoOn.do = "fields"
  <2>1. GoOn \in Frame
    BY <1>1, AtFieldType
  <2> QED BY <2>1 DEF GoOn, FieldsFrame
<1>3. field \in Field /\ p \in Seq(Step) /\ field.property \in Step /\ path = Append(p, field.property)
  BY <1>1, AtFieldType DEF Field, Step
<1> HIDE DEF path
<1>4. path \in Seq(Step)
  BY <1>3
<1>5. f \in Frame /\ f.do = "of" /\ f.path = path /\ f.type = field.type /\ f.enum = field.enum
  <2>1. field.type \in Types /\ field.enum \in {"none", "texts", "integers"}
    BY <1>3 DEF Field
  <2>2. f \in Frame
    BY <1>4, <2>1 DEF OfFrame, Frame
  <2> QED BY <2>1, <2>2 DEF OfFrame
<1> HIDE DEF f
<1>6. Stacks({GoOn, f}, {<<GoOn, f>>})
  BY <1>1, <1>2, <1>5, FieldsCall, StacksOn
<1>7. path \notin DOMAIN nodes
  <2>1. StructNode(p)
    BY <1>1, FieldsCall
  <2>2. ~Leads(p, field.property)
    BY <1>1, <1>3, <2>1 DEF Leads, Listed, StructNode
  <2>3. DOMAIN nodes \subseteq Seq(Step) /\ Rooted
    BY DEF Shape, ModelSchemasInv, ModelSchemasTypeOK
  <2> QED BY <1>3, <2>2, <2>3, NotYetThere
<1> HIDE DEF p, field
<1> QED BY <1>1, <1>3, <1>4, <1>5, <1>6, <1>7 DEF p, field

-----------------------------------------------------------------------------
(* What is being written is contained in the model *)

Subject == models[index].type

\* A struct that is written, and a type that will be, are contained in the model.
InSight ==
    /\ \A p \in DOMAIN nodes : StructNode(p) => nodes[p].of \in Structs(Subject)
    /\ \A c \in Calls : c.do = "of" => c.type \in ValuesIn(Subject)

\* What is written while an inline struct is, that struct contains.
Within(c, d) ==
    c.do = "close" /\ ~Named(c.type) =>
        /\ d.do = "of" => d.type \in Held(c.type)
        /\ d.do = "fields" => LET u == nodes[d.path].of
                              IN  ~Named(u) /\ (u = c.type \/ u \in Held(c.type))

Nested == \A e \in CallPairs : Within(e[1], e[2])

MarkedOnly == \A u \in inline : \E c \in Calls : c.do = "close" /\ c.type = u

Sight == InSight /\ Nested /\ MarkedOnly

\* No node is lost, and none changes what it is or what it is of.
KeepsNodes ==
    /\ DOMAIN nodes \subseteq DOMAIN nodes'
    /\ \A p \in DOMAIN nodes : nodes'[p].kind = nodes[p].kind /\ nodes'[p].of = nodes[p].of

LEMMA SameNodes ==
    ASSUME input' = input, KeepsNodes
    PROVE  \A p \in DOMAIN nodes : (StructNode(p)' <=> StructNode(p)) /\ (Listed(p)' <=> Listed(p))
BY SameTypes DEF KeepsNodes, StructNode, Listed

LEMMA SameSubject ==
    ASSUME UNCHANGED locals
    PROVE  /\ input' = input /\ Subject' = Subject
           /\ ValuesIn(Subject)' = ValuesIn(Subject) /\ Structs(Subject)' = Structs(Subject)
<1>1. input' = input /\ Subject' = Subject
  BY SameTypes DEF locals, Subject
<1>2. \A t : ValuesIn(t)' = ValuesIn(t) /\ Structs(t)' = Structs(t)
  BY <1>1, SameSight
<1> QED BY <1>1, <1>2

LEMMA SightStep ==
    ASSUME Shape, Sight, NEW new, NEW order, Stacks(new, order), UNCHANGED locals, KeepsNodes,
           \A p \in DOMAIN nodes' : p \notin DOMAIN nodes =>
              (StructNode(p)' => nodes'[p].of \in Structs(Subject)),
           \A d \in new : d.do = "of" => d.type \in ValuesIn(Subject),
           \A c \in Calls, d \in new : Within(c, Top) => Within(c, d)',
           \A e \in order : Within(e[1], e[2])',
           \A u \in inline' : \/ u \in inline /\ ~(Top.do = "close" /\ Top.type = u)
                              \/ \E d \in new : d.do = "close" /\ d.type = u
    PROVE  Sight'
<1>1. Goes(new) /\ input' = input
  BY SameSubject DEF Stacks
<1>2. InSight'
  <2>1. ASSUME NEW p \in DOMAIN nodes', StructNode(p)' PROVE nodes'[p].of \in Structs(Subject)
    <3>1. CASE p \in DOMAIN nodes
      BY <1>1, <2>1, <3>1, SameNodes DEF Sight, InSight, KeepsNodes
    <3> QED BY <2>1, <3>1
  <2>2. ASSUME NEW d \in Calls', d.do = "of" PROVE d.type \in ValuesIn(Subject)
    BY <1>1, <2>2 DEF Goes, Sight, InSight
  <2> QED BY <2>1, <2>2, SameSubject DEF InSight
<1>3. Nested'
  <2>1. ASSUME NEW c \in Below, NEW d \in Below, Within(c, d) PROVE Within(c, d)'
    <3>1. d.do = "fields" => d.path \in DOMAIN nodes
      BY <1>1 DEF Shape, FieldsOfParts, StructNode, Goes
    <3>2. d.do = "fields" => nodes'[d.path].of = nodes[d.path].of
      BY <3>1 DEF KeepsNodes
    <3> QED BY <1>1, <2>1, <3>2, SameTypes, SameSight DEF Within
  <2>2. ASSUME NEW c \in Below, NEW d \in new PROVE Within(c, d)'
    <3>1. <<c, Top>> \in CallPairs
      BY DEF Stacks
    <3>2. Within(c, Top)
      BY <3>1 DEF Sight, Nested
    <3> QED BY <1>1, <3>2 DEF Goes
  <2>3. ASSUME NEW e \in Lower PROVE Within(e[1], e[2])'
    <3>1. e \in CallPairs /\ e[1] \in Below /\ e[2] \in Below
      BY DEF Stacks
    <3>2. Within(e[1], e[2])
      BY <3>1 DEF Sight, Nested
    <3> QED BY <2>1, <3>1, <3>2
  <2>4. ASSUME NEW e \in Below \X new PROVE Within(e[1], e[2])'
    <3>1. e[1] \in Below /\ e[2] \in new
      OBVIOUS
    <3> QED BY <2>2, <3>1
  <2>5. \A e \in CallPairs' : e \in Lower \/ e \in Below \X new \/ e \in order
    BY DEF Stacks
  <2>6. \A e \in CallPairs' : Within(e[1], e[2])'
    BY <2>3, <2>4, <2>5
  <2> QED BY <2>6 DEF Nested
<1>4. MarkedOnly'
  <2>1. ASSUME NEW u \in inline' PROVE \E d \in Calls' : d.do = "close" /\ d.type = u
    <3>1. CASE u \in inline /\ ~(Top.do = "close" /\ Top.type = u)
      <4>1. PICK c \in Calls : c.do = "close" /\ c.type = u
        BY <3>1 DEF Sight, MarkedOnly
      <4>2. c \in Below
        BY <1>1, <3>1, <4>1 DEF Goes
      <4> QED BY <1>1, <4>1, <4>2 DEF Goes
    <3> QED BY <1>1, <3>1 DEF Goes
  <2> QED BY <2>1 DEF MarkedOnly
<1> QED BY <1>2, <1>3, <1>4 DEF Sight

LEMMA QuietSight ==
    ASSUME ModelSchemasInv, Shape, Sight, EndElements \/ CloseStruct \/ EndFields, ~Refuse
    PROVE  Sight'
<1>1. /\ Stacks({}, {}) /\ UNCHANGED locals /\ nodes' = nodes
      /\ \A u \in inline' : u \in inline /\ ~(Top.do = "close" /\ Top.type = u)
  <2>1. CASE EndElements
    BY <2>1, EndElementsView
  <2>2. CASE CloseStruct
    BY <2>2, CloseView
  <2>3. CASE EndFields
    BY <2>3, EndFieldsView
  <2> QED BY <2>1, <2>2, <2>3
<1>2. KeepsNodes
  BY <1>1 DEF KeepsNodes
<1> QED BY <1>1, <1>2, SightStep

LEMMA CloseType ==
    ASSUME ModelSchemasInv, NEW c \in Calls, c.do = "close"
    PROVE  c.type \in Types
<1>1. PICK i \in DOMAIN stack : c = stack[i]
  BY DEF Calls
<1>2. stack \in Seq(Frame)
  BY DEF ModelSchemasInv, ModelSchemasTypeOK
<1>3. c \in Frame
  <2> HIDE DEF Frame
  <2> QED BY <1>1, <1>2
<1> QED BY <1>3 DEF Frame

LEMMA DereferenceSight ==
    ASSUME ModelSchemasInv, Shape, Sight, Dereference
    PROVE  Sight'
<1>1. PICK f, g :
              /\ Stacks({f, g}, {<<f, g>>})
              /\ f.do = "nullable" /\ f.path = Top.path
              /\ g.do = "of" /\ g.path = Top.path /\ g.type = go[Top.type].elem /\ g.enum = Top.enum
              /\ Top.do = "of" /\ go[Top.type].kind = "pointer"
              /\ UNCHANGED <<locals, inline, seen, nodes>>
  BY DereferenceView
<1>2. Top \in Calls /\ Top.type \in Types /\ input \in Inputs
  BY OfCall DEF Dereference
<1>3. KeepsNodes /\ input' = input
  BY <1>1, SameSubject DEF KeepsNodes
<1>4. g.type \in Contains(Top.type)
  BY <1>1, <1>2, ContainsCases
<1>5. g.type \in ValuesIn(Subject)
  <2>1. Top.type \in ValuesIn(Subject)
    BY <1>1, <1>2 DEF Sight, InSight
  <2>2. Subject \in Types
    BY ModelUnderWay, <1>1, AtCall DEF Subject, Dereference, Runs, ModelSchemasInv, ModelSchemasTypeOK
  <2> QED BY <1>2, <1>4, <2>1, <2>2, ValuesAreClosed
<1>6. ASSUME NEW c \in Calls, NEW d \in {f, g}, Within(c, Top) PROVE Within(c, d)'
  <2>1. SUFFICES ASSUME c.do = "close", ~Named(c.type), d = g PROVE g.type \in Held(c.type)
    BY <1>1, <1>3, SameTypes, SameSight DEF Within
  <2>2. Top.type \in Held(c.type)
    BY <1>1, <1>6, <2>1 DEF Within
  <2> QED BY <1>2, <1>4, <2>1, <2>2, CloseType, HeldIsClosed
<1>7. \A e \in {<<f, g>>} : Within(e[1], e[2])'
  BY <1>1 DEF Within
<1> QED BY <1>1, <1>3, <1>5, <1>6, <1>7, SightStep

\* The field in hand is one of the object's.
LEMMA HereIsAPlace ==
    ASSUME ModelSchemasInv, Shape, AtField, Writes(CurrentField)
    PROVE  /\ <<Top.type, Top.next>> \in PlacesOf(nodes[Top.path].of)
           /\ Reaches(Top, <<Top.type, Top.next>>)
<1>1. Runs("fields") /\ Top.next <= Len(go[Top.type].fields)
  BY DEF AtField
<1>2. /\ Top.type \in Parts(nodes[Top.path].of) /\ Top.next \in Nat \ {0}
      /\ DOMAIN go[Top.type].fields = 1 .. Len(go[Top.type].fields)
      /\ Len(go[Top.type].fields) \in Nat
  BY <1>1, FieldsCall
<1>3. Top.next \in DOMAIN go[Top.type].fields
  BY <1>1, <1>2
<1>4. <<Top.type, Top.next>> \in PlacesOf(nodes[Top.path].of)
  BY <1>2, <1>3, PlaceParts DEF CurrentField
<1>5. Top.next <= Top.next
  BY <1>2
<1> QED BY <1>4, <1>5 DEF Reaches

\* What a node describes is a type.
LEMMA StructType ==
    ASSUME ModelSchemasInv, NEW p \in DOMAIN nodes
    PROVE  nodes[p].of \in Types
<1>1. nodes[p] \in Node
  BY DEF ModelSchemasInv, ModelSchemasTypeOK
<1> QED BY <1>1 DEF Node

LEMMA SubjectType ==
    ASSUME ModelSchemasInv, at = "derive"
    PROVE  Subject \in Types
BY ModelUnderWay DEF Subject, ModelSchemasInv, ModelSchemasTypeOK

\* What a value in sight contains is in sight, here and in the structs around it.
LEMMA SightPasses ==
    ASSUME ModelSchemasInv, Shape, Sight, Runs("of"), NEW t \in Contains(Top.type)
    PROVE  /\ t \in ValuesIn(Subject)
           /\ \A c \in Calls : c.do = "close" /\ ~Named(c.type) /\ Within(c, Top) => t \in Held(c.type)
<1>1. Top \in Calls /\ Top.type \in Types /\ input \in Inputs /\ Top.do = "of" /\ Subject \in Types
  BY OfCall, SubjectType DEF Runs
<1>2. t \in ValuesIn(Subject)
  BY <1>1, ValuesAreClosed DEF Sight, InSight
<1>3. ASSUME NEW c \in Calls, c.do = "close", ~Named(c.type), Within(c, Top)
      PROVE  t \in Held(c.type)
  BY <1>1, <1>3, CloseType, HeldIsClosed DEF Within
<1> QED BY <1>2, <1>3

LEMMA AddsKeeps ==
    ASSUME NEW path, NEW node, Adds(path, node)
    PROVE  KeepsNodes
BY DEF Adds, KeepsNodes

LEMMA LeafSight ==
    ASSUME ModelSchemasInv, Shape, Sight, Refer \/ WriteScalar, ~Refuse
    PROVE  Sight'
<1>1. PICK node : /\ Stacks({}, {}) /\ Adds(Top.path, node) /\ Top.do = "of"
                  /\ node.of = Top.type /\ node.kind # "object"
                  /\ UNCHANGED <<locals, inline, seen>>
  BY LeafView
<1>2. \A p \in DOMAIN nodes' : p \notin DOMAIN nodes => ~StructNode(p)'
  BY <1>1 DEF Adds, StructNode
<1> QED BY <1>1, <1>2, AddsKeeps, SightStep

LEMMA EnterElementsSight ==
    ASSUME ModelSchemasInv, Shape, Sight, EnterElements
    PROVE  Sight'
<1>0. Runs("of")
  BY DEF EnterElements, Describes
<1>1. PICK f, g, node :
              /\ Stacks({f, g}, {<<f, g>>}) /\ Adds(Top.path, node)
              /\ f.do = "elements"
              /\ g.do = "of" /\ g.type = go[Top.type].elem
              /\ node.of = Top.type
              /\ Top.do = "of" /\ ~Named(Top.type) /\ go[Top.type].kind \in {"list", "array", "map"}
              /\ UNCHANGED <<locals, inline, seen>>
  <2>1. PICK f, g, node, step :
              /\ Stacks({f, g}, {<<f, g>>}) /\ Adds(Top.path, node)
              /\ f.do = "elements" /\ f.enum = Top.enum
              /\ g.do = "of" /\ g.path = Append(Top.path, step) /\ g.type = go[Top.type].elem
              /\ g.enum = "none" /\ step \in Step
              /\ node.of = Top.type /\ node.null = FALSE /\ node.repeats = FALSE /\ node.enum = FALSE
              /\ node.kind = (IF go[Top.type].kind = "map" THEN "object" ELSE "array")
              /\ Top.do = "of" /\ ~Named(Top.type) /\ go[Top.type].kind \in {"list", "array", "map"}
              /\ go[Top.type].kind = "list" => go[go[Top.type].elem].kind # "byte"
              /\ go[Top.type].kind = "map" => go[Top.type].textKeys
              /\ UNCHANGED <<locals, inline, seen>>
    BY ElementsView
  <2> QED BY <2>1
<1>2. Top.type \in Types /\ input \in Inputs
  BY <1>0, OfCall
<1>3. input' = input /\ go' = go
  BY <1>1, SameSubject, SameTypes
<1>4. g.type \in Contains(Top.type)
  BY <1>1, <1>2, ContainsCases
<1>5. \A p \in DOMAIN nodes' : p \notin DOMAIN nodes => ~StructNode(p)'
  BY <1>1, <1>3 DEF Adds, StructNode
<1>6. ASSUME NEW c \in Calls, NEW d \in {f, g}, Within(c, Top) PROVE Within(c, d)'
  <2>1. SUFFICES ASSUME c.do = "close", ~Named(c.type), d = g PROVE g.type \in Held(c.type)
    BY <1>1, <1>3, SameTypes, SameSight DEF Within
  <2> QED BY <1>0, <1>4, <1>6, <2>1, SightPasses
<1>7. \A e \in {<<f, g>>} : Within(e[1], e[2])'
  BY <1>1 DEF Within
<1>8. \A d \in {f, g} : d.do = "of" => d.type \in ValuesIn(Subject)
  BY <1>0, <1>1, <1>4, SightPasses
<1>9. KeepsNodes
  BY <1>1, AddsKeeps
<1> QED BY <1>1, <1>5, <1>6, <1>7, <1>8, <1>9, SightStep

LEMMA EnterStructSight ==
    ASSUME ModelSchemasInv, Shape, Sight, EnterStruct, ~Refuse
    PROVE  Sight'
<1>0. Runs("of")
  BY DEF EnterStruct, Describes
<1>1. PICK f, g, node :
              /\ Stacks({f, g}, {<<f, g>>}) /\ Adds(Top.path, node)
              /\ f.do = "close" /\ f.type = Top.type
              /\ g = FieldsFrame(Top.type, 1, Top.path)
              /\ node = Written("object", Top.type)
              /\ Top.do = "of" /\ ~Named(Top.type) /\ go[Top.type].kind = "struct"
              /\ inline' = inline \cup {Top.type}
              /\ UNCHANGED <<locals, seen>>
  BY StructView
<1>2. g.do = "fields" /\ g.path = Top.path /\ node.of = Top.type
  BY <1>1 DEF FieldsFrame, Written
<1>3. input' = input /\ go' = go
  BY <1>1, SameSubject, SameTypes
<1>4. Top.type \in Structs(Subject)
  BY <1>0, <1>1, OfCall DEF Sight, InSight, Structs, Inlined
<1>5. PICK t : t = Top.type
  OBVIOUS
<1>6. nodes'[g.path].of = t /\ ~Named(t)'
  <2>1. ~Named(t)
    BY <1>1, <1>5
  <2> QED BY <1>1, <1>2, <1>3, <1>5, <2>1, SameTypes DEF Adds
<1>7. ASSUME NEW c \in Calls, NEW d \in {f, g}, Within(c, Top) PROVE Within(c, d)'
  <2>1. CASE d = f
    BY <1>1, <2>1 DEF Within
  <2>2. CASE d = g
    <3> SUFFICES ASSUME c.do = "close", ~Named(c.type) PROVE Within(c, g)'
      BY <1>3, <2>2, SameTypes DEF Within
    <3>1. t \in Held(c.type)
      BY <1>1, <1>5, <1>7 DEF Within
    <3> QED BY <1>2, <1>3, <1>6, <3>1, SameTypes, SameSight DEF Within
  <2> QED BY <2>1, <2>2
<1>8. \A e \in {<<f, g>>} : Within(e[1], e[2])'
  BY <1>1, <1>2, <1>5, <1>6 DEF Within
<1>9. KeepsNodes
  BY <1>1, AddsKeeps
<1>10. \A p \in DOMAIN nodes' : p \notin DOMAIN nodes => nodes'[p].of \in Structs(Subject)
  BY <1>1, <1>2, <1>4 DEF Adds
<1>11. \A d \in {f, g} : d.do # "of"
  BY <1>1, <1>2
<1>12. \A u \in inline' : \/ u \in inline /\ ~(Top.do = "close" /\ Top.type = u)
                          \/ \E d \in {f, g} : d.do = "close" /\ d.type = u
  BY <1>1
<1> QED BY <1>1, <1>7, <1>8, <1>9, <1>10, <1>11, <1>12, SightStep

LEMMA MakeNullableSight ==
    ASSUME ModelSchemasInv, Shape, Sight, MakeNullable
    PROVE  Sight'
<1>1. PICK new :
              /\ Stacks({}, {}) /\ Top.do = "nullable"
              /\ DOMAIN nodes' = DOMAIN nodes /\ nodes'[Top.path] = new
              /\ \A p \in DOMAIN nodes : p # Top.path => nodes'[p] = nodes[p]
              /\ new.kind = nodes[Top.path].kind /\ new.of = nodes[Top.path].of
              /\ UNCHANGED <<locals, inline, seen>>
  BY MakeNullableView
<1>2. KeepsNodes
  BY <1>1 DEF KeepsNodes
<1> QED BY <1>1, <1>2, SightStep

\* The calls of fields that take the place of another are at the same object.
LEMMA FieldsSight ==
    ASSUME ModelSchemasInv, Shape, Sight, SkipField \/ PromoteFields \/ (WriteField /\ ~Refuse)
    PROVE  Sight'
<1>0. Runs("fields") /\ StructNode(Top.path) /\ Top.do = "fields" /\ input \in Inputs
         /\ at = "derive" /\ Top.type \in Types
  BY FieldsCall DEF SkipField, PromoteFields, WriteField, AtField
<1>1. PICK h : h = GoOn
  OBVIOUS
<1>2. h.do = "fields" /\ h.path = Top.path
  BY <1>1 DEF GoOn, FieldsFrame
<1>3. UNCHANGED locals /\ nodes' = nodes /\ inline' = inline
  BY SkipFieldView, PromoteFieldsView, WriteFieldView
<1>4. input' = input /\ KeepsNodes
  BY <1>3, SameSubject DEF KeepsNodes
<1>5. ASSUME NEW c \in Calls, NEW d, d.do = "fields", d.path = Top.path, Within(c, Top)
      PROVE  Within(c, d)'
  BY <1>0, <1>3, <1>4, <1>5, SameTypes, SameSight DEF Within
<1>6. CASE SkipField
  <2>1. Stacks({h}, {})
    BY <1>1, <1>6, SkipFieldView
  <2>2. \A c \in Calls, d \in {h} : Within(c, Top) => Within(c, d)'
    BY <1>2, <1>5
  <2>3. \A d \in {h} : d.do # "of"
    BY <1>2
  <2> QED BY <1>0, <1>3, <1>4, <2>1, <2>2, <2>3, SightStep
<1>7. CASE PromoteFields
  <2>1. PICK f : f = FieldsFrame(Inner(CurrentField), 1, Top.path)
    OBVIOUS
  <2>2. f.do = "fields" /\ f.path = Top.path /\ Stacks({h, f}, {<<h, f>>})
    BY <1>1, <1>7, <2>1, PromoteFieldsView DEF FieldsFrame
  <2>3. \A c \in Calls, d \in {h, f} : Within(c, Top) => Within(c, d)'
    BY <1>2, <1>5, <2>2
  <2>4. \A d \in {h, f} : d.do # "of"
    BY <1>2, <2>2
  <2>5. \A e \in {<<h, f>>} : Within(e[1], e[2])'
    BY <1>2 DEF Within
  <2> QED BY <1>0, <1>3, <1>4, <2>2, <2>3, <2>4, <2>5, SightStep
<1>8. CASE WriteField /\ ~Refuse
  <2>1. PICK f, path :
              /\ Stacks({GoOn, f}, {<<GoOn, f>>})
              /\ f.do = "of" /\ f.type = CurrentField.type /\ f.enum = CurrentField.enum /\ f.path = path
              /\ path = Append(Top.path, CurrentField.property)
              /\ path \notin seen /\ seen' = seen \cup {path}
              /\ path \notin DOMAIN nodes /\ path \in Seq(Step)
              /\ Runs("fields") /\ AtField /\ Writes(CurrentField) /\ ~CurrentField.unknown
              /\ CurrentField \in Field
              /\ UNCHANGED <<locals, inline, nodes>>
    BY <1>8, WriteFieldView
  <2>2. Stacks({h, f}, {<<h, f>>})
    BY <1>1, <2>1
  <2>3. PICK u : u = nodes[Top.path].of
    OBVIOUS
  <2>4. f.type \in {x.type : x \in WrittenFields(u)}
    <3>1. <<Top.type, Top.next>> \in PlacesOf(u)
      BY <2>1, <2>3, HereIsAPlace
    <3>2. FieldAt(<<Top.type, Top.next>>) = CurrentField
      BY DEF FieldAt, CurrentField
    <3> QED BY <2>1, <3>1, <3>2 DEF WrittenFields
  <2>5. u \in Structs(Subject) /\ go[u].kind = "struct" /\ u \in Types
    BY <1>0, <2>3, StructType DEF Sight, InSight, StructNode
  <2>6. f.type \in ValuesIn(Subject)
    BY <1>0, <2>4, <2>5, SubjectType, FieldsAreValues
  <2>7. ASSUME NEW c \in Calls, NEW d \in {h, f}, Within(c, Top) PROVE Within(c, d)'
    <3>1. CASE d = h
      BY <1>2, <1>5, <2>7, <3>1
    <3>2. CASE d = f
      <4>1. SUFFICES ASSUME c.do = "close", ~Named(c.type) PROVE f.type \in Held(c.type)
        BY <1>4, <2>1, <3>2, SameTypes, SameSight DEF Within
      <4>2. ~Named(u) /\ (u = c.type \/ u \in Held(c.type)) /\ c.type \in Types
        BY <1>0, <2>3, <2>7, <4>1, CloseType DEF Within
      <4>3. f.type \in Contains(u)
        BY <1>0, <2>4, <2>5, <4>2, ContainsCases
      <4> QED BY <1>0, <4>2, <4>3, HeldIsClosed
    <3> QED BY <3>1, <3>2
  <2>8. \A e \in {<<h, f>>} : Within(e[1], e[2])'
    BY <1>2 DEF Within
  <2>9. \A d \in {h, f} : d.do = "of" => d.type \in ValuesIn(Subject)
    BY <1>2, <2>6
  <2> QED BY <1>0, <1>3, <1>4, <2>2, <2>7, <2>8, <2>9, SightStep
<1> QED BY <1>6, <1>7, <1>8

LEMMA BeginSight ==
    ASSUME ModelSchemasInv, BeginModel, ~Refuse
    PROVE  Sight'
<1> SUFFICES ASSUME NEW t, t = models[index].type PROVE Sight'
  OBVIOUS
<1>1. UNCHANGED <<input, index, out>>
  BY DEF BeginModel
<1>2. t \in Types /\ input \in Inputs /\ Named(t)
  BY ModelUnderWay DEF BeginModel, Named
<1>3. /\ input' = input /\ go' = go /\ Subject' = t /\ Named(t)'
      /\ ValuesIn(Subject)' = ValuesIn(t) /\ Structs(Subject)' = Structs(t)
  <2>1. input' = input /\ go' = go /\ Subject' = t /\ Named(t)'
    BY <1>1, <1>2, SameTypes DEF Subject
  <2>2. \A u : ValuesIn(u)' = ValuesIn(u) /\ Structs(u)' = Structs(u)
    BY <2>1, SameSight
  <2> QED BY <2>1, <2>2
<1>4. CASE /\ go[t].kind = "struct" /\ inline' = {t}
           /\ stack' = <<CloseFrame(t), FieldsFrame(t, 1, <<>>)>>
           /\ nodes' = [p \in {<<>>} |-> Written("object", t)]
  <2> DEFINE f == CloseFrame(t)
  <2> DEFINE g == FieldsFrame(t, 1, <<>>)
  <2> DEFINE node == Written("object", t)
  <2>1. f.do = "close" /\ f.type = t /\ g.do = "fields" /\ node.of = t
    BY DEF CloseFrame, FieldsFrame, Written
  <2> HIDE DEF f, g, node
  <2>2. DOMAIN stack' = {1, 2} /\ stack'[1] = f /\ stack'[2] = g
    BY <1>4 DEF f, g
  <2>3. Calls' = {f, g}
    BY <2>2 DEF Calls
  <2>4. \A e \in CallPairs' : e[1] = f
    <3>1. \A i \in DOMAIN stack', j \in DOMAIN stack' : i < j => i = 1
      BY <2>2
    <3> QED BY <2>2, <3>1 DEF CallPairs
  <2>5. Nested'
    BY <1>3, <2>1, <2>4 DEF Nested, Within
  <2>6. t \in Structs(t)
    BY <1>4 DEF Structs
  <2>7. InSight'
    <3>1. \A p \in DOMAIN nodes' : nodes'[p].of = t
      BY <1>4, <2>1 DEF node
    <3> QED BY <1>3, <2>1, <2>3, <2>6, <3>1 DEF InSight
  <2>8. MarkedOnly'
    BY <1>4, <2>1, <2>3 DEF MarkedOnly
  <2> QED BY <2>5, <2>7, <2>8 DEF Sight
<1>5. CASE /\ go[t].kind # "struct" /\ inline' = {}
           /\ stack' = <<OfFrame(t, "none", <<>>)>> /\ nodes' = Empty
  <2> DEFINE g == OfFrame(t, "none", <<>>)
  <2>1. g.do = "of" /\ g.type = t
    BY DEF OfFrame
  <2> HIDE DEF g
  <2>2. DOMAIN stack' = {1} /\ stack'[1] = g
    BY <1>5 DEF g
  <2>3. Calls' = {g} /\ CallPairs' = {}
    BY <2>2 DEF Calls, CallPairs
  <2>4. t \in ValuesIn(t)
    BY <1>2, <1>5, ValuesAreClosed DEF Root
  <2>5. InSight'
    BY <1>3, <1>5, <2>1, <2>3, <2>4 DEF InSight, Empty
  <2> QED BY <1>5, <2>3, <2>5 DEF Sight, Nested, MarkedOnly
<1> QED BY <1>4, <1>5 DEF BeginModel

-----------------------------------------------------------------------------
(* What a call of fields still has before it *)

\* A step of deriver that is no refusal.
Derives ==
    /\ \/ Dereference \/ Refer \/ WriteScalar \/ EnterElements \/ EndElements
       \/ EnterStruct \/ CloseStruct \/ MakeNullable
       \/ EndFields \/ SkipField \/ PromoteFields \/ WriteField
    /\ ~Refuse

Here == <<Top.type, Top.next>>

LEMMA DerivesView ==
    ASSUME ModelSchemasInv, Shape, Derives
    PROVE  /\ \E new, order : Stacks(new, order)
           /\ UNCHANGED locals /\ KeepsNodes /\ input' = input
           /\ Top.do # "fields" \/ EndFields \/ SkipField \/ PromoteFields \/ WriteField
<1>0. Derives
  OBVIOUS
<1>1. CASE EndElements \/ CloseStruct
  <2>1. /\ Stacks({}, {}) /\ UNCHANGED locals /\ nodes' = nodes /\ Top.do # "fields"
    BY <1>0, <1>1, EndElementsView, CloseView DEF Derives
  <2> QED BY <2>1 DEF KeepsNodes, locals
<1>2. CASE Dereference
  <2>1. PICK f, g :
              /\ Stacks({f, g}, {<<f, g>>})
              /\ f.do = "nullable" /\ f.path = Top.path
              /\ g.do = "of" /\ g.path = Top.path /\ g.type = go[Top.type].elem /\ g.enum = Top.enum
              /\ Top.do = "of" /\ go[Top.type].kind = "pointer"
              /\ UNCHANGED <<locals, inline, seen, nodes>>
    BY <1>2, DereferenceView
  <2> QED BY <2>1 DEF KeepsNodes, locals
<1>3. CASE Refer \/ WriteScalar
  <2>1. PICK node : /\ Stacks({}, {}) /\ Adds(Top.path, node) /\ Top.do = "of"
                    /\ UNCHANGED <<locals, inline, seen>>
    BY <1>0, <1>3, LeafView DEF Derives
  <2> QED BY <2>1, AddsKeeps DEF locals
<1>4. CASE EnterElements
  <2>1. PICK f, g, node, step :
              /\ Stacks({f, g}, {<<f, g>>}) /\ Adds(Top.path, node)
              /\ f.do = "elements" /\ f.enum = Top.enum
              /\ g.do = "of" /\ g.path = Append(Top.path, step) /\ g.type = go[Top.type].elem
              /\ g.enum = "none" /\ step \in Step
              /\ node.of = Top.type /\ node.null = FALSE /\ node.repeats = FALSE /\ node.enum = FALSE
              /\ node.kind = (IF go[Top.type].kind = "map" THEN "object" ELSE "array")
              /\ Top.do = "of" /\ ~Named(Top.type) /\ go[Top.type].kind \in {"list", "array", "map"}
              /\ go[Top.type].kind = "list" => go[go[Top.type].elem].kind # "byte"
              /\ go[Top.type].kind = "map" => go[Top.type].textKeys
              /\ UNCHANGED <<locals, inline, seen>>
    BY <1>4, ElementsView
  <2> QED BY <2>1, AddsKeeps DEF locals
<1>5. CASE EnterStruct
  <2>1. PICK f, g, node :
              /\ Stacks({f, g}, {<<f, g>>}) /\ Adds(Top.path, node)
              /\ f.do = "close" /\ f.type = Top.type
              /\ g = FieldsFrame(Top.type, 1, Top.path)
              /\ node = Written("object", Top.type)
              /\ Top.do = "of" /\ ~Named(Top.type) /\ go[Top.type].kind = "struct"
              /\ inline' = inline \cup {Top.type}
              /\ UNCHANGED <<locals, seen>>
    BY <1>0, <1>5, StructView DEF Derives
  <2> QED BY <2>1, AddsKeeps DEF locals
<1>6. CASE MakeNullable
  <2>1. PICK new :
              /\ Stacks({}, {}) /\ Top.do = "nullable"
              /\ DOMAIN nodes' = DOMAIN nodes /\ nodes'[Top.path] = new
              /\ \A p \in DOMAIN nodes : p # Top.path => nodes'[p] = nodes[p]
              /\ new.kind = nodes[Top.path].kind /\ new.of = nodes[Top.path].of
              /\ UNCHANGED <<locals, inline, seen>>
    BY <1>6, MakeNullableView
  <2>2. KeepsNodes
    BY <2>1 DEF KeepsNodes
  <2> QED BY <2>1, <2>2 DEF locals
<1>7. CASE EndFields
  <2>1. Stacks({}, {}) /\ UNCHANGED <<locals, nodes>>
    BY <1>7, EndFieldsView
  <2> QED BY <1>7, <2>1 DEF KeepsNodes, locals
<1>8. CASE SkipField
  <2>1. Stacks({GoOn}, {}) /\ UNCHANGED <<locals, nodes>>
    BY <1>8, SkipFieldView
  <2> QED BY <1>8, <2>1 DEF KeepsNodes, locals
<1>9. CASE PromoteFields
  <2> DEFINE f == FieldsFrame(Inner(CurrentField), 1, Top.path)
  <2>1. Stacks({GoOn, f}, {<<GoOn, f>>}) /\ UNCHANGED <<locals, nodes>>
    BY <1>9, PromoteFieldsView
  <2> HIDE DEF f
  <2> QED BY <1>9, <2>1 DEF KeepsNodes, locals
<1>10. CASE WriteField
  <2>1. PICK f : Stacks({GoOn, f}, {<<GoOn, f>>}) /\ UNCHANGED <<locals, nodes>>
    BY <1>0, <1>10, WriteFieldView DEF Derives
  <2> QED BY <1>10, <2>1 DEF KeepsNodes, locals
<1> QED BY <1>0, <1>1, <1>2, <1>3, <1>4, <1>5, <1>6, <1>7, <1>8, <1>9, <1>10 DEF Derives

\* What the innermost call does not have before it stays where it is.
LEMMA AheadElsewhere ==
    ASSUME NEW new, Goes(new), input' = input, NEW p, NEW place, Ahead(p, place),
           Top.do = "fields" /\ Top.path = p /\ Reaches(Top, place) =>
              \E c \in new : c.do = "fields" /\ c.path = p /\ Reaches(c, place)
    PROVE  Ahead(p, place)'
BY SameTypes DEF Ahead, Goes

\* A call of fields that begins at a struct has before it the fields of its parts.
LEMMA PlaceInPart ==
    ASSUME input \in Inputs, NEW t, NEW place \in PlacesOf(t), NEW w \in Types, NEW path,
           place[1] \in Parts(w)
    PROVE  Reaches(FieldsFrame(w, 1, path), place)
<1>1. PICK s \in Parts(t) : \E i \in DOMAIN go[s].fields :
         Writes(go[s].fields[i]) /\ place = <<s, i>>
  BY PlaceParts
<1>2. place \in PlacesOf(w)
  BY <1>1, PlaceParts
<1> QED BY <1>2, AllAhead

\* The field that is written is the only one that is not ahead any more.
LEMMA StillAhead ==
    ASSUME ModelSchemasInv, Shape, Derives, NEW p \in DOMAIN nodes, StructNode(p),
           NEW place \in PlacesOf(nodes[p].of), Ahead(p, place)
    PROVE  Ahead(p, place)' \/ (WriteField /\ p = Top.path /\ place = Here)
<1>1. input' = input
  BY DerivesView
<1>2. CASE Top.do # "fields" \/ Top.path # p \/ ~Reaches(Top, place)
  <2>1. PICK new, order : Stacks(new, order)
    BY DerivesView
  <2> QED BY <1>1, <1>2, <2>1, AheadElsewhere DEF Stacks
<1>3. CASE Top.do = "fields" /\ Top.path = p /\ Reaches(Top, place)
  <2>0. PICK h : h = GoOn
    OBVIOUS
  <2>1. CASE EndFields
    <3>1. PICK s \in Parts(nodes[p].of) : \E i \in DOMAIN go[s].fields : place = <<s, i>>
      BY PlaceParts
    <3>2. PICK i \in DOMAIN go[s].fields : place = <<s, i>>
      BY <3>1
    <3>3. Runs("fields") /\ Top.next > Len(go[Top.type].fields)
      BY <2>1 DEF EndFields
    <3>4. s \in Types
      BY DEF Parts, Reached
    <3>5. DOMAIN go[s].fields = 1 .. Len(go[s].fields) /\ Len(go[s].fields) \in Nat
      BY <3>3, <3>4, FieldsCall, FieldsIn
    <3>6. place[1] = s /\ place[2] = i
      BY <3>2
    <3>7. \A m \in DOMAIN go[Top.type].fields : ~(Top.next <= m)
      BY <3>3, FieldsCall
    <3> QED BY <1>3, <3>2, <3>6, <3>7 DEF Reaches
  <2>2. CASE SkipField
    <3>1. Stacks({h}, {}) /\ Runs("fields") /\ ~Promotes(CurrentField) /\ ~Writes(CurrentField)
      BY <2>0, <2>2, SkipFieldView
    <3>2. h.do = "fields" /\ h.path = p /\ Reaches(h, place)
      BY <1>3, <2>0, <3>1, GoOnReaches
    <3> QED BY <1>1, <3>1, <3>2, AheadElsewhere DEF Stacks
  <2>3. CASE PromoteFields
    <3>1. PICK f : f = FieldsFrame(Inner(CurrentField), 1, Top.path)
      OBVIOUS
    <3>2. Stacks({h, f}, {<<h, f>>}) /\ Runs("fields") /\ Promotes(CurrentField)
             /\ Inner(CurrentField) \in Types /\ ~Writes(CurrentField)
      BY <2>0, <2>3, <3>1, PromoteFieldsView DEF Writes
    <3>3. f.do = "fields" /\ f.path = p
      BY <1>3, <3>1 DEF FieldsFrame
    <3>4. \/ h.do = "fields" /\ h.path = p /\ Reaches(h, place)
          \/ place[1] \in Parts(Inner(CurrentField))
      BY <1>3, <2>0, <3>2, GoOnReaches
    <3>5. ASSUME place[1] \in Parts(Inner(CurrentField)) PROVE Reaches(f, place)
      BY <3>1, <3>2, <3>5, FieldsCall, PlaceInPart
    <3> QED BY <1>1, <3>2, <3>3, <3>4, <3>5, AheadElsewhere DEF Stacks
  <2>4. CASE WriteField
    <3>1. PICK f : Stacks({h, f}, {<<h, f>>}) /\ Runs("fields") /\ Writes(CurrentField)
      BY <2>0, <2>4, WriteFieldView DEF Derives
    <3>2. \/ h.do = "fields" /\ h.path = p /\ Reaches(h, place)
          \/ place = Here
      BY <1>3, <2>0, <3>1, GoOnReaches DEF Writes, Here
    <3> QED BY <1>1, <1>3, <2>4, <3>1, <3>2, AheadElsewhere DEF Stacks
  <2> QED BY <1>3, <2>1, <2>2, <2>3, <2>4, DerivesView
<1> QED BY <1>2, <1>3

-----------------------------------------------------------------------------
(* The tags of fields *)

Deep(t) == go[t].kind = "pointer" /\ go[go[t].elem].kind = "pointer"

\* Two calls of nullable wait for the node at a path.
Twice(q) == \E e \in CallPairs : /\ e[1].do = "nullable" /\ e[1].path = q
                                 /\ e[2].do = "nullable" /\ e[2].path = q

Scalar(q) == nodes[q].kind \notin {"ref", "array", "object"}

\* A call for a field's type, or for what it points to.
CallTagged(c, f) ==
    /\ c.enum = f.enum
    /\ c.type \in Under(f.type)
    /\ \/ c.type = f.type /\ ~Waits(c.path)
       \/ go[f.type].kind = "pointer" /\ c.type = go[f.type].elem /\ Waits(c.path) /\ ~Twice(c.path)
       \/ Deep(f.type) /\ Twice(c.path)

\* A field's node has its enum if it is a scalar, with null twice after two pointers.
NodeTagged(q, f) ==
    LET node == nodes[q]
    IN  /\ node.of \in Pointees(f.type)
        /\ node.enum <=> Scalar(q) /\ f.enum # "none"
        /\ node.enum => node.kind # "any"
        /\ Scalar(q) => ~EnumRefused(SchemaKind(go[node.of].kind), f.enum)
        /\ Listed(q) /\ f.enum # "none" => \E c \in Calls : c.do = "elements" /\ c.enum # "none"
        /\ Deep(f.type) /\ node.enum => node.repeats \/ (node.null /\ Waits(q)) \/ Twice(q)
        /\ (node.null /\ Waits(q)) \/ node.repeats => Deep(f.type)

TagFits(q, f) ==
    /\ \A c \in Calls : c.do = "of" /\ c.path = q => CallTagged(c, f)
    /\ q \in DOMAIN nodes => NodeTagged(q, f)
    /\ Twice(q) => Deep(f.type)

\* The path is that of a field, and its tag is followed.
FieldTag(q) ==
    \E p \in DOMAIN nodes : StructNode(p) /\ \E place \in PlacesOf(nodes[p].of) :
        q = Append(p, FieldAt(place).property) /\ TagFits(q, FieldAt(place))

FieldsTagged ==
    \A p \in DOMAIN nodes : StructNode(p) => \A place \in PlacesOf(nodes[p].of) :
        \/ Ahead(p, place)
        \/ /\ ~FieldAt(place).unknown
           /\ TagFits(Append(p, FieldAt(place).property), FieldAt(place))

\* A field with the enum tag is an array or a map.
Unlistable(enum) ==
    \E u \in Structs(Subject) : \E f \in WrittenFields(u) :
        /\ f.enum = enum
        /\ \E v \in Pointees(f.type) : ~Named(v) /\ go[v].kind \in {"list", "array", "map"}

CallsTagged ==
    \A c \in Calls : c.do \in {"of", "elements"} /\ c.enum # "none" =>
        /\ c.do = "of" => FieldTag(c.path)
        /\ c.do = "elements" => Unlistable(c.enum)

NodesTagged ==
    \A q \in DOMAIN nodes :
        /\ nodes[q].repeats => nodes[q].enum
        /\ nodes[q].enum => FieldTag(q) /\ ~Named(nodes[q].of) /\ go[nodes[q].of].kind # "struct"

SeenRooted == \A q \in seen : \E p \in DOMAIN nodes, s \in Step : q = Append(p, s) /\ StructNode(p)

Tagged == FieldsTagged /\ CallsTagged /\ NodesTagged /\ SeenRooted

LEMMA Elsewhere ==
    ASSUME NEW new, NEW order, Stacks(new, order), \A e \in order : e[2] \in new, NEW q,
           \A c \in new \cup {Top} : c.do \in {"of", "nullable"} => c.path # q
    PROVE  /\ Waits(q)' <=> Waits(q)
           /\ Twice(q)' <=> Twice(q)
           /\ \A c \in Calls \cup Calls' : c.do = "of" => c.path # q
<1>1. Goes(new)
  BY DEF Stacks
<1>2. Waits(q)' <=> Waits(q)
  BY <1>1 DEF Waits, Goes
<1>3. \A c \in Calls \cup Calls' : c.do = "of" => c.path # q
  BY <1>1 DEF Goes, OnlyInnermost
<1>4. \A e \in CallPairs : e \in Lower \/ e[2] = Top
  BY DEF Stacks
<1>5. \A e \in CallPairs' : e \in Lower \/ e[2] \in new
  BY DEF Stacks
<1>6. Lower \subseteq CallPairs /\ Lower \subseteq CallPairs'
  BY DEF Stacks
<1>7. Twice(q)' <=> Twice(q)
  BY <1>4, <1>5, <1>6 DEF Twice
<1> QED BY <1>2, <1>3, <1>7

\* A field the step is not about is tagged as before.
LEMMA TagStays ==
    ASSUME NEW new, NEW order, Stacks(new, order), \A e \in order : e[2] \in new, NEW q,
           \A c \in new \cup {Top} : c.do \in {"of", "nullable"} => c.path # q,
           input' = input, q \in DOMAIN nodes' => q \in DOMAIN nodes /\ nodes'[q] = nodes[q],
           Top.do = "elements" => Top.enum = "none",
           NEW f, TagFits(q, f)
    PROVE  TagFits(q, f)'
<1>1. /\ Waits(q)' <=> Waits(q)
      /\ Twice(q)' <=> Twice(q)
      /\ \A c \in Calls \cup Calls' : c.do = "of" => c.path # q
  BY Elsewhere
<1>2. go' = go /\ Pointees(f.type)' = Pointees(f.type) /\ (Deep(f.type)' <=> Deep(f.type))
  BY SameTypes DEF Deep
<1>3. (\E c \in Calls : c.do = "elements" /\ c.enum # "none") =>
         (\E c \in Calls' : c.do = "elements" /\ c.enum # "none")
  BY DEF Stacks, Goes
<1>4. ASSUME q \in DOMAIN nodes' PROVE NodeTagged(q, f)'
  <2>1. q \in DOMAIN nodes /\ nodes'[q] = nodes[q] /\ NodeTagged(q, f)
    BY <1>4 DEF TagFits
  <2>2. (Listed(q)' <=> Listed(q)) /\ (Scalar(q)' <=> Scalar(q))
    BY <1>2, <1>4, <2>1 DEF Listed, Scalar
  <2> QED BY <1>1, <1>2, <1>3, <2>1, <2>2 DEF NodeTagged
<1> QED BY <1>1, <1>2, <1>4 DEF TagFits

\* A field's path has been seen if a node is there or comes.
LEMMA FieldTagSeen ==
    ASSUME ModelSchemasInv, Shape, NEW q, FieldTag(q), Hangs(q)
    PROVE  q \in seen
<1>1. PICK p \in DOMAIN nodes : StructNode(p) /\ \E place \in PlacesOf(nodes[p].of) :
                 q = Append(p, FieldAt(place).property)
  BY DEF FieldTag
<1>2. PICK place \in PlacesOf(nodes[p].of) : q = Append(p, FieldAt(place).property)
  BY <1>1
<1>3. FieldAt(place).property \in Step /\ DOMAIN nodes \subseteq Seq(Step) /\ p \in Seq(Step)
  <2>1. FieldAt(place) \in Field /\ DOMAIN nodes \subseteq Seq(Step)
    BY WrittenFieldsType DEF ModelSchemasInv, ModelSchemasTypeOK
  <2> QED BY <2>1 DEF Field, Step
<1>4. q # <<>>
  <2> HIDE DEF Step
  <2> QED BY <1>2, <1>3, AppendProperties, EmptySeq
<1>5. PICK r \in DOMAIN nodes, s \in Step : q = Append(r, s) /\ Leads(r, s)
  BY <1>4 DEF Hangs
<1>6. r = p /\ s = FieldAt(place).property
  BY <1>2, <1>3, <1>5, LastStep
<1> QED BY <1>1, <1>5, <1>6 DEF Leads, StructNode, Listed

LEMMA FieldTagStays ==
    ASSUME input' = input, KeepsNodes, NEW q, FieldTag(q), \A f : TagFits(q, f) => TagFits(q, f)'
    PROVE  FieldTag(q)'
<1>1. PICK p \in DOMAIN nodes : StructNode(p) /\ \E place \in PlacesOf(nodes[p].of) :
                 q = Append(p, FieldAt(place).property) /\ TagFits(q, FieldAt(place))
  BY DEF FieldTag
<1>2. PICK place \in PlacesOf(nodes[p].of) :
                 q = Append(p, FieldAt(place).property) /\ TagFits(q, FieldAt(place))
  BY <1>1
<1>3. p \in DOMAIN nodes' /\ StructNode(p)' /\ nodes'[p].of = nodes[p].of
  BY <1>1, SameNodes DEF KeepsNodes
<1>4. PICK f : f = FieldAt(place)
  OBVIOUS
<1>5. f = FieldAt(place)' /\ place \in PlacesOf(nodes[p].of)'
  BY <1>3, <1>4, SameTypes
<1>6. q = Append(p, f.property) /\ TagFits(q, f)'
  BY <1>2, <1>4
<1> QED BY <1>3, <1>5, <1>6 DEF FieldTag

LEMMA SameUnlistable ==
    ASSUME UNCHANGED locals, NEW enum
    PROVE  Unlistable(enum)' <=> Unlistable(enum)
<1>1. PICK S : S = Structs(Subject)
  OBVIOUS
<1>2. S = Structs(Subject)' /\ input' = input
  BY <1>1, SameSubject
<1> QED BY <1>1, <1>2, SameTypes DEF Unlistable

LEMMA TagStep ==
    ASSUME ModelSchemasInv, Shape, Tagged, UNCHANGED locals, KeepsNodes,
           NEW new, NEW order, Stacks(new, order),
           \A q \in seen : \A f : TagFits(q, f) => TagFits(q, f)',
           \A q \in seen' : q \in seen \/ \E p \in DOMAIN nodes, s \in Step :
                                             q = Append(p, s) /\ StructNode(p),
           \A p \in DOMAIN nodes' : p \notin DOMAIN nodes /\ StructNode(p)' =>
              \A place \in PlacesOf(nodes'[p].of) : Ahead(p, place)',
           \A p \in DOMAIN nodes : StructNode(p) => \A place \in PlacesOf(nodes[p].of) :
              Ahead(p, place) =>
                 \/ Ahead(p, place)'
                 \/ \A f : f = FieldAt(place) =>
                       ~f.unknown /\ TagFits(Append(p, f.property), f)',
           \A c \in new : c.do \in {"of", "elements"} /\ c.enum # "none" =>
              /\ c.do = "of" => FieldTag(c.path)'
              /\ c.do = "elements" => Unlistable(c.enum),
           \A q \in DOMAIN nodes' :
              /\ nodes'[q].repeats => nodes'[q].enum
              /\ nodes'[q].enum => \/ q \in DOMAIN nodes /\ nodes[q].enum
                                   \/ /\ FieldTag(q)' /\ ~Named(nodes'[q].of)
                                      /\ go[nodes'[q].of].kind # "struct"
    PROVE  Tagged'
<1>1. Goes(new) /\ input' = input /\ go' = go
  BY SameSubject, SameTypes DEF Stacks
<1>2. \A p \in DOMAIN nodes : /\ p \in DOMAIN nodes' /\ nodes'[p].of = nodes[p].of
                              /\ StructNode(p)' <=> StructNode(p)
  BY <1>1, SameNodes DEF KeepsNodes
<1>3. FieldsTagged'
  <2> SUFFICES ASSUME NEW p \in DOMAIN nodes', StructNode(p)', NEW u, u = nodes'[p].of,
                      NEW place \in PlacesOf(u), ~Ahead(p, place)',
                      NEW f, f = FieldAt(place)
               PROVE  ~f.unknown /\ TagFits(Append(p, f.property), f)'
    <3>1. \A u : PlacesOf(u)' = PlacesOf(u)
      BY <1>1, SameTypes
    <3>2. \A place : FieldAt(place)' = FieldAt(place)
      BY <1>1, SameTypes
    <3> QED BY <3>1, <3>2 DEF FieldsTagged
  <2>1. p \in DOMAIN nodes /\ StructNode(p) /\ u = nodes[p].of
    BY <1>2
  <2>2. CASE Ahead(p, place)
    BY <2>1, <2>2
  <2>3. CASE ~Ahead(p, place)
    <3>1. ~f.unknown /\ TagFits(Append(p, f.property), f)
      BY <2>1, <2>3 DEF Tagged, FieldsTagged
    <3>2. Append(p, f.property) \in seen
      BY <2>1, <2>3 DEF Shape, FieldsOwed, Settled
    <3> QED BY <3>1, <3>2
  <2> QED BY <2>2, <2>3
<1>4. CallsTagged'
  <2> SUFFICES ASSUME NEW c \in Calls', c.do \in {"of", "elements"}, c.enum # "none"
               PROVE  /\ c.do = "of" => FieldTag(c.path)'
                      /\ c.do = "elements" => Unlistable(c.enum)'
    BY DEF CallsTagged
  <2>1. CASE c \in Below
    <3>1. c.do # "of" /\ c \in Calls
      BY <1>1, <2>1 DEF Goes, OnlyInnermost
    <3> QED BY <3>1, SameUnlistable DEF Tagged, CallsTagged
  <2>2. CASE c \in new
    BY <2>2, SameUnlistable
  <2> QED BY <1>1, <2>1, <2>2 DEF Goes
<1>5. NodesTagged'
  <2> SUFFICES ASSUME NEW q \in DOMAIN nodes', nodes'[q].enum, NEW u, u = nodes'[q].of
               PROVE  FieldTag(q)' /\ ~Named(u) /\ go[u].kind # "struct"
    <3>1. \A u : Named(u)' = Named(u)
      BY <1>1, SameTypes
    <3> QED BY <1>1, <3>1 DEF NodesTagged
  <2>1. CASE q \in DOMAIN nodes /\ nodes[q].enum
    <3>1. FieldTag(q) /\ ~Named(u) /\ go[u].kind # "struct"
      BY <1>2, <2>1 DEF Tagged, NodesTagged
    <3>2. q \in seen
      BY <2>1, <3>1, FieldTagSeen DEF Shape, Rooted
    <3> QED BY <1>1, <3>1, <3>2, FieldTagStays
  <2> QED BY <2>1
<1>6. SeenRooted'
  <2> SUFFICES ASSUME NEW q \in seen'
               PROVE  \E p \in DOMAIN nodes, s \in Step : q = Append(p, s) /\ StructNode(p)
    BY <1>2 DEF SeenRooted
  <2> QED BY DEF Tagged, SeenRooted
<1> QED BY <1>3, <1>4, <1>5, <1>6 DEF Tagged

\* EndElements, CloseStruct, EndFields, SkipField, PromoteFields.
LEMMA QuietTags ==
    ASSUME ModelSchemasInv, Shape, Tagged, Derives,
           EndElements \/ CloseStruct \/ EndFields \/ SkipField \/ PromoteFields
    PROVE  Tagged'
<1>1. /\ UNCHANGED <<locals, seen, nodes>>
      /\ Top.do \notin {"of", "nullable"} /\ (Top.do = "elements" => Top.enum = "none")
      /\ \E new, order : /\ Stacks(new, order) /\ \A e \in order : e[2] \in new
                         /\ \A c \in new : c.do = "fields"
  <2>0. PICK h : h = GoOn
    OBVIOUS
  <2>9. h.do = "fields"
    BY <2>0 DEF GoOn, FieldsFrame
  <2>1. CASE EndElements
    BY <2>1, EndElementsView DEF Derives
  <2>2. CASE CloseStruct
    BY <2>2, CloseView
  <2>3. CASE EndFields
    BY <2>3, EndFieldsView
  <2>4. CASE SkipField
    <3>1. Stacks({h}, {}) /\ Runs("fields") /\ UNCHANGED <<locals, seen, nodes>>
      BY <2>0, <2>4, SkipFieldView
    <3> QED BY <2>9, <3>1, FieldsCall
  <2>5. CASE PromoteFields
    <3>1. PICK f : f = FieldsFrame(Inner(CurrentField), 1, Top.path)
      OBVIOUS
    <3>2. Stacks({h, f}, {<<h, f>>}) /\ Runs("fields") /\ UNCHANGED <<locals, seen, nodes>>
      BY <2>0, <2>5, <3>1, PromoteFieldsView
    <3>3. f.do = "fields"
      BY <3>1 DEF FieldsFrame
    <3>4. /\ \A e \in {<<h, f>>} : e[2] \in {h, f}
          /\ \A c \in {h, f} : c.do = "fields"
      BY <2>9, <3>3
    <3>5. Top.do = "fields"
      BY <3>2, FieldsCall
    <3>6. \E new, order : /\ Stacks(new, order) /\ \A e \in order : e[2] \in new
                          /\ \A c \in new : c.do = "fields"
      BY <3>2, <3>4
    <3> QED BY <3>2, <3>5, <3>6
  <2> QED BY <2>1, <2>2, <2>3, <2>4, <2>5
<1>2. PICK new, order : /\ Stacks(new, order) /\ \A e \in order : e[2] \in new
                        /\ \A c \in new : c.do = "fields"
  BY <1>1
<1>3. input' = input /\ KeepsNodes
  BY DerivesView
<1>4. \A q \in seen : \A f : TagFits(q, f) => TagFits(q, f)'
  BY <1>1, <1>2, <1>3, TagStays
<1>5. \A p \in DOMAIN nodes : StructNode(p) => \A place \in PlacesOf(nodes[p].of) :
              Ahead(p, place) => Ahead(p, place)'
  <2>1. ~WriteField
    BY <1>1, WriteFieldView DEF Derives
  <2> QED BY <2>1, StillAhead
<1>6. \A q \in DOMAIN nodes' : /\ nodes'[q].repeats => nodes'[q].enum
                               /\ nodes'[q].enum => q \in DOMAIN nodes /\ nodes[q].enum
  BY <1>1 DEF Tagged, NodesTagged
<1>7. /\ \A q \in seen' : q \in seen
      /\ \A p \in DOMAIN nodes' : p \in DOMAIN nodes
      /\ \A c \in new : c.do \notin {"of", "elements"}
      /\ UNCHANGED locals
  BY <1>1, <1>2
<1> QED BY <1>2, <1>3, <1>4, <1>5, <1>6, <1>7, TagStep

LEMMA TwiceWaits ==
    ASSUME NEW q, Twice(q)
    PROVE  Waits(q)
BY DEF Twice, Waits, CallPairs, Calls

LEMMA WriteFieldTags ==
    ASSUME ModelSchemasInv, Shape, Tagged, Derives, WriteField
    PROVE  Tagged'
<1>1. PICK f, path :
              /\ Stacks({GoOn, f}, {<<GoOn, f>>})
              /\ f.do = "of" /\ f.type = CurrentField.type /\ f.enum = CurrentField.enum /\ f.path = path
              /\ path = Append(Top.path, CurrentField.property)
              /\ path \notin seen /\ seen' = seen \cup {path}
              /\ path \notin DOMAIN nodes /\ path \in Seq(Step)
              /\ Runs("fields") /\ AtField /\ Writes(CurrentField) /\ ~CurrentField.unknown
              /\ CurrentField \in Field
              /\ UNCHANGED <<locals, inline, nodes>>
  BY WriteFieldView DEF Derives
<1>2. PICK h, field, p, here : h = GoOn /\ field = CurrentField /\ p = Top.path /\ here = Here
  OBVIOUS
<1>3. /\ Stacks({h, f}, {<<h, f>>}) /\ h.do = "fields" /\ Top.do = "fields"
      /\ StructNode(p) /\ p \in DOMAIN nodes
  <2>1. Top.do = "fields" /\ StructNode(p)
    BY <1>1, <1>2, FieldsCall
  <2> QED BY <1>1, <1>2, <2>1 DEF GoOn, FieldsFrame, StructNode
<1>4. input' = input /\ KeepsNodes /\ nodes' = nodes /\ UNCHANGED locals
  <2>1. nodes' = nodes /\ UNCHANGED locals
    BY <1>1
  <2>2. input' = input /\ KeepsNodes
    BY DerivesView
  <2> QED BY <2>1, <2>2
<1>5. /\ here \in PlacesOf(nodes[p].of) /\ FieldAt(here) = field /\ field \in Field
      /\ path = Append(p, field.property) /\ ~field.unknown
      /\ f.type = field.type /\ f.enum = field.enum
  BY <1>1, <1>2, HereIsAPlace DEF Here, FieldAt, CurrentField
<1>6. \A q \in seen : \A g : TagFits(q, g) => TagFits(q, g)'
  <2> SUFFICES ASSUME NEW q \in seen, NEW g, TagFits(q, g) PROVE TagFits(q, g)'
    OBVIOUS
  <2>1. \A c \in {h, f} \cup {Top} : c.do \in {"of", "nullable"} => c.path # q
    BY <1>1, <1>3
  <2>2. \A e \in {<<h, f>>} : e[2] \in {h, f}
    OBVIOUS
  <2> QED BY <1>3, <1>4, <2>1, <2>2, TagStays
<1>7. ~Waits(path)' /\ ~Twice(path)'
  <2>1. ~Waits(path)
    <3>1. \A c \in Calls : c.do # "of"
      BY <1>3 DEF Stacks, Goes, OnlyInnermost
    <3> QED BY <1>1, <3>1 DEF Shape, NullablesKnown, Waits, Coming
  <2>2. ~Waits(path)'
    BY <1>1, <1>3, <2>1 DEF Waits, Stacks, Goes
  <2>3. Twice(path)' => Waits(path)'
    BY DEF Twice, Waits, CallPairs, Calls
  <2> QED BY <2>2, <2>3
<1>8. TagFits(path, field)'
  <2>1. \A c \in Calls' : c.do = "of" => c = f
    BY <1>3 DEF Stacks, Goes, OnlyInnermost
  <2>2. CallTagged(f, field)'
    <3>1. field.type \in Types /\ input \in Inputs
      BY <1>1, <1>5, FieldsCall DEF Field
    <3>2. f.type \in Under(field.type)'
      BY <1>4, <1>5, <3>1, SameTypes, UnderPointers
    <3> QED BY <1>1, <1>5, <1>7, <3>2 DEF CallTagged
  <2> QED BY <1>1, <1>4, <1>7, <2>1, <2>2 DEF TagFits
<1>9. FieldTag(path)'
  <2>1. p \in DOMAIN nodes' /\ StructNode(p)' /\ here \in PlacesOf(nodes[p].of)'
           /\ FieldAt(here)' = field
    BY <1>3, <1>4, <1>5, SameNodes, SameTypes
  <2>2. TagFits(path, FieldAt(here))'
    BY <1>8, <2>1
  <2> QED BY <1>5, <2>1, <2>2 DEF FieldTag
<1>10. \A r \in DOMAIN nodes : StructNode(r) => \A place \in PlacesOf(nodes[r].of) :
              Ahead(r, place) =>
                 \/ Ahead(r, place)'
                 \/ \A g : g = FieldAt(place) =>
                       ~g.unknown /\ TagFits(Append(r, g.property), g)'
  <2> SUFFICES ASSUME NEW r \in DOMAIN nodes, StructNode(r), NEW place \in PlacesOf(nodes[r].of),
                      Ahead(r, place), ~Ahead(r, place)'
               PROVE  ~field.unknown /\ place = here /\ r = p
    BY <1>5, <1>8
  <2> QED BY <1>2, <1>5, StillAhead
<1>11. \A q \in seen' : q \in seen \/ \E r \in DOMAIN nodes, s \in Step :
                                         q = Append(r, s) /\ StructNode(r)
  <2>1. field.property \in Step
    BY <1>5 DEF Field, Step
  <2> QED BY <1>1, <1>3, <1>5, <2>1
<1>12. \A q \in DOMAIN nodes' : /\ nodes'[q].repeats => nodes'[q].enum
                                /\ nodes'[q].enum => q \in DOMAIN nodes /\ nodes[q].enum
  BY <1>4 DEF Tagged, NodesTagged
<1>13. \A c \in {h, f} : c.do \in {"of", "elements"} /\ c.enum # "none" =>
              /\ c.do = "of" => FieldTag(c.path)'
              /\ c.do = "elements" => Unlistable(c.enum)
  BY <1>1, <1>3, <1>9
<1> QED BY <1>3, <1>4, <1>6, <1>10, <1>11, <1>12, <1>13, TagStep

LEMMA DereferenceTags ==
    ASSUME ModelSchemasInv, Shape, Tagged, Derives, Dereference
    PROVE  Tagged'
<1>1. PICK f, g :
              /\ Stacks({f, g}, {<<f, g>>})
              /\ f.do = "nullable" /\ f.path = Top.path
              /\ g.do = "of" /\ g.path = Top.path /\ g.type = go[Top.type].elem /\ g.enum = Top.enum
              /\ Top.do = "of" /\ go[Top.type].kind = "pointer"
              /\ UNCHANGED <<locals, inline, seen, nodes>>
  BY DereferenceView
<1>2. PICK path, t : path = Top.path /\ t = Top.type
  OBVIOUS
<1>3. /\ Top \in Calls /\ t \in Types /\ input \in Inputs /\ path \notin DOMAIN nodes
      /\ f.path = path /\ g.path = path /\ g.type = go[t].elem /\ go[t].kind = "pointer"
  BY <1>1, <1>2, OfCall DEF Dereference
<1>4. input' = input /\ KeepsNodes /\ nodes' = nodes /\ UNCHANGED locals /\ go' = go
  BY <1>1, DerivesView, SameTypes
<1>5. \A e \in {<<f, g>>} : e[2] \in {f, g}
  OBVIOUS
<1>6. Waits(path)' /\ (Twice(path)' <=> Waits(path))
  <2>1. Waits(path)'
    BY <1>1, <1>3 DEF Waits, Stacks, Goes
  <2>2. \A c \in Below : <<c, f>> \in CallPairs'
    BY <1>1 DEF Stacks
  <2>3. Waits(path) => \E c \in Below : c.do = "nullable" /\ c.path = path
    BY <1>1 DEF Waits, Stacks, Goes
  <2>4. Waits(path) => Twice(path)'
    <3> SUFFICES ASSUME Waits(path) PROVE Twice(path)'
      OBVIOUS
    <3>1. PICK c \in Below : c.do = "nullable" /\ c.path = path
      BY <2>3
    <3>2. <<c, f>> \in CallPairs' /\ <<c, f>>[1] = c /\ <<c, f>>[2] = f
      BY <2>2
    <3> QED BY <1>1, <1>3, <3>1, <3>2 DEF Twice
  <2>5. \A e \in CallPairs' : e[1] \in Below \/ e = <<f, g>>
    BY <1>1 DEF Stacks
  <2>6. Twice(path)' => Waits(path)
    <3> SUFFICES ASSUME Twice(path)' PROVE Waits(path)
      OBVIOUS
    <3>1. PICK e \in CallPairs' : /\ e[1].do = "nullable" /\ e[1].path = path
                                  /\ e[2].do = "nullable"
      BY DEF Twice
    <3>2. e[1] \in Below
      BY <1>1, <2>5, <3>1
    <3> QED BY <1>1, <3>1, <3>2 DEF Waits, Stacks, Goes
  <2> QED BY <2>1, <2>4, <2>6
<1>7. ASSUME NEW q, NEW x, TagFits(q, x) PROVE TagFits(q, x)'
  <2>1. CASE q # path
    <3>1. \A c \in {f, g} \cup {Top} : c.do \in {"of", "nullable"} => c.path # q
      BY <1>2, <1>3, <2>1
    <3> QED BY <1>1, <1>4, <1>5, <1>7, <3>1, TagStays
  <2>2. CASE q = path
    <3>1. CallTagged(Top, x)
      BY <1>1, <1>2, <1>3, <1>7, <2>2 DEF TagFits
    <3>2. /\ Top.enum = x.enum /\ t \in Under(x.type)
          /\ \/ t = x.type /\ ~Waits(path)
             \/ go[x.type].kind = "pointer" /\ t = go[x.type].elem /\ Waits(path) /\ ~Twice(path)
             \/ Deep(x.type) /\ Twice(path)
      BY <1>2, <3>1 DEF CallTagged
    <3>3. \/ ~Waits(path) /\ go[x.type].kind = "pointer" /\ t = x.type
          \/ Waits(path) /\ Deep(x.type)
      BY <1>3, <3>2, TwiceWaits DEF Deep
    <3>4. g.type \in Under(x.type)'
      BY <1>3, <1>4, <3>2, UnderPointers, SameTypes
    <3>5. Deep(x.type)' <=> Deep(x.type)
      BY <1>4 DEF Deep
    <3>6. CallTagged(g, x)'
      BY <1>1, <1>3, <1>4, <1>6, <3>2, <3>3, <3>4, <3>5 DEF CallTagged
    <3>7. \A c \in Calls' : c.do = "of" => c = g
      BY <1>1 DEF Stacks, Goes, OnlyInnermost
    <3> QED BY <1>3, <1>4, <1>6, <2>2, <3>3, <3>5, <3>6, <3>7 DEF TagFits
  <2> QED BY <2>1, <2>2
<1>8. \A p \in DOMAIN nodes : StructNode(p) => \A place \in PlacesOf(nodes[p].of) :
              Ahead(p, place) => Ahead(p, place)'
  <2>1. ~WriteField
    BY <1>1 DEF WriteField, AtField, Runs
  <2> QED BY <2>1, StillAhead
<1>9. \A c \in {f, g} : c.do \in {"of", "elements"} /\ c.enum # "none" =>
              /\ c.do = "of" => FieldTag(c.path)'
              /\ c.do = "elements" => Unlistable(c.enum)
  <2> SUFFICES ASSUME g.enum # "none" PROVE FieldTag(path)'
    BY <1>1, <1>3
  <2>1. FieldTag(path)
    BY <1>1, <1>2, <1>3 DEF Tagged, CallsTagged
  <2> QED BY <1>4, <1>7, <2>1, FieldTagStays
<1>10. \A q \in DOMAIN nodes' : /\ nodes'[q].repeats => nodes'[q].enum
                                /\ nodes'[q].enum => q \in DOMAIN nodes /\ nodes[q].enum
  BY <1>4 DEF Tagged, NodesTagged
<1>11. \A q \in seen' : q \in seen
  BY <1>1
<1> QED BY <1>1, <1>4, <1>7, <1>8, <1>9, <1>10, <1>11, TagStep

LEMMA SameTwice ==
    ASSUME NEW new, NEW order, Stacks(new, order), \A e \in order : e[2] \in new,
           Top.do # "nullable", \A c \in new : c.do # "nullable", NEW q
    PROVE  (Waits(q)' <=> Waits(q)) /\ (Twice(q)' <=> Twice(q))
<1>1. Waits(q)' <=> Waits(q)
  BY SameWaits DEF Stacks
<1>2. \A e \in CallPairs : e \in Lower \/ e[2] = Top
  BY DEF Stacks
<1>3. \A e \in CallPairs' : e \in Lower \/ e[2] \in new
  BY DEF Stacks
<1>4. Lower \subseteq CallPairs /\ Lower \subseteq CallPairs'
  BY DEF Stacks
<1> QED BY <1>1, <1>2, <1>3, <1>4 DEF Twice

LEMMA LongerPath ==
    ASSUME NEW p \in Seq(Step), NEW s \in Step
    PROVE  Append(p, s) # p
<1> HIDE DEF Step
<1>1. Len(Append(p, s)) = Len(p) + 1 /\ Len(p) \in Nat
  BY AppendProperties, LenProperties
<1> QED BY <1>1

\* A node is written as the tag of its field has it.
WritesTagged(path, t, node, new) ==
    /\ Top.do = "of" /\ Top.path = path /\ Top.type = t /\ go[t].kind # "pointer"
    /\ Adds(path, node) /\ UNCHANGED <<locals, seen>>
    /\ node.of = t /\ node.null = FALSE /\ node.repeats = FALSE
    /\ node.enum = (node.kind \notin {"ref", "array", "object"} /\ Top.enum # "none")
    /\ node.kind \notin {"ref", "array", "object"} =>
          /\ ~Named(t) /\ go[t].kind # "struct"
          /\ node.kind = SchemaKind(go[t].kind) /\ ~EnumRefused(node.kind, Top.enum)
    /\ Listed(path)' => \E c \in new : c.do = "elements" /\ c.enum = Top.enum
    /\ StructNode(path)' => \A place \in PlacesOf(t) : Ahead(path, place)'
    /\ \A c \in new :
          /\ c.do # "nullable"
          /\ c.do = "of" => c.enum = "none" /\ \E s \in Step : c.path = Append(path, s)
          /\ c.do = "elements" => /\ c.enum = Top.enum /\ ~Named(t)
                                  /\ go[t].kind \in {"list", "array", "map"}

LEMMA WrittenTagFits ==
    ASSUME ModelSchemasInv, Shape, NEW path, NEW t, NEW node, NEW new, NEW order,
           Stacks(new, order), \A e \in order : e[2] \in new, WritesTagged(path, t, node, new),
           Runs("of"), NEW x, TagFits(path, x)
    PROVE  /\ TagFits(path, x)'
           /\ x.enum = Top.enum /\ t \in Pointees(x.type)
<1> USE DEF WritesTagged
<1>1. input' = input /\ go' = go
  BY SameSubject, SameTypes
<1>2. Top \in Calls /\ path \in Seq(Step) /\ path \notin DOMAIN nodes /\ input \in Inputs
  BY OfCall
<1>3. (Waits(path)' <=> Waits(path)) /\ (Twice(path)' <=> Twice(path))
  BY SameTwice
<1>4. CallTagged(Top, x)
  BY <1>2 DEF TagFits
<1>5. /\ x.enum = Top.enum /\ t \in Under(x.type)
      /\ \/ t = x.type /\ ~Waits(path)
         \/ go[x.type].kind = "pointer" /\ t = go[x.type].elem /\ Waits(path) /\ ~Twice(path)
         \/ Deep(x.type) /\ Twice(path)
  BY <1>4 DEF CallTagged
<1>6. t \in Pointees(x.type)
  BY <1>2, <1>5, UnderPointers
<1>7. Deep(x.type) => Twice(path)
  BY <1>5 DEF Deep
<1>8. \A c \in Calls' : c.do = "of" => c.path # path
  BY <1>2, LongerPath DEF Stacks, Goes, OnlyInnermost
<1>9. nodes'[path] = node /\ (Scalar(path)' <=> node.kind \notin {"ref", "array", "object"})
  BY DEF Adds, Scalar
<1>10. NodeTagged(path, x)'
  <2>1. node.of \in Pointees(x.type)'
    BY <1>1, <1>6, SameTypes
  <2>2. node.enum => node.kind # "any"
    BY DEF EnumRefused
  <2>3. Listed(path)' /\ x.enum # "none" => \E c \in Calls' : c.do = "elements" /\ c.enum # "none"
    BY <1>5 DEF Stacks, Goes
  <2>4. Scalar(path)' => ~EnumRefused(SchemaKind(go'[node.of].kind), x.enum)
    BY <1>1, <1>5, <1>9
  <2>5. Deep(x.type)' <=> Deep(x.type)
    BY <1>1 DEF Deep
  <2>6. node.enum <=> Scalar(path)' /\ x.enum # "none"
    BY <1>5, <1>9
  <2>7. /\ Deep(x.type)' /\ node.enum => node.repeats \/ (node.null /\ Waits(path)') \/ Twice(path)'
        /\ (node.null /\ Waits(path)') \/ node.repeats => Deep(x.type)'
    BY <1>3, <1>7, <2>5
  <2> QED BY <1>9, <2>1, <2>2, <2>3, <2>4, <2>6, <2>7 DEF NodeTagged
<1>11. Twice(path)' => Deep(x.type)'
  BY <1>1, <1>3 DEF TagFits, Deep
<1>12. TagFits(path, x)'
  BY <1>8, <1>10, <1>11 DEF TagFits
<1> QED BY <1>5, <1>6, <1>12

LEMMA WrittenTags ==
    ASSUME ModelSchemasInv, Shape, Sight, Tagged, NEW path, NEW t, NEW node, NEW new, NEW order,
           Stacks(new, order), \A e \in order : e[2] \in new, WritesTagged(path, t, node, new),
           Runs("of")
    PROVE  Tagged'
<1>0. \A x : TagFits(path, x) => TagFits(path, x)' /\ x.enum = Top.enum /\ t \in Pointees(x.type)
  BY WrittenTagFits
<1> USE DEF WritesTagged
<1>1. input' = input /\ go' = go /\ KeepsNodes
  BY SameSubject, SameTypes, AddsKeeps
<1>2. /\ Top \in Calls /\ path \in Seq(Step) /\ path \notin DOMAIN nodes /\ input \in Inputs
      /\ DOMAIN nodes \subseteq Seq(Step)
  BY OfCall DEF ModelSchemasInv, ModelSchemasTypeOK
<1>3. ASSUME NEW q \in seen, NEW x, TagFits(q, x) PROVE TagFits(q, x)'
  <2>1. CASE q = path
    BY <1>0, <1>3, <2>1
  <2>2. CASE q # path
    <3>1. PICK p \in DOMAIN nodes, s \in Step : q = Append(p, s)
      BY DEF Tagged, SeenRooted
    <3>2. \A r \in Step : Append(path, r) # q
      BY <1>2, <3>1, LastStep
    <3>3. \A c \in new \cup {Top} : c.do \in {"of", "nullable"} => c.path # q
      BY <2>2, <3>2
    <3>4. q \in DOMAIN nodes' => q \in DOMAIN nodes /\ nodes'[q] = nodes[q]
      BY <2>2 DEF Adds
    <3> QED BY <1>1, <1>3, <3>3, <3>4, TagStays
  <2> QED BY <2>1, <2>2
<1>4. FieldTag(path) => FieldTag(path)'
  <2>1. FieldTag(path) => path \in seen
    BY <1>2, FieldTagSeen DEF Shape, Rooted
  <2> QED BY <1>1, <1>3, <2>1, FieldTagStays
<1>5. ASSUME Top.enum # "none", ~Named(t), go[t].kind \in {"list", "array", "map"}
      PROVE  Unlistable(Top.enum)
  <2>1. FieldTag(path)
    BY <1>2, <1>5 DEF Tagged, CallsTagged
  <2>2. PICK p \in DOMAIN nodes : StructNode(p) /\ \E place \in PlacesOf(nodes[p].of) :
                 TagFits(path, FieldAt(place))
    BY <2>1 DEF FieldTag
  <2>3. PICK place \in PlacesOf(nodes[p].of) : TagFits(path, FieldAt(place))
    BY <2>2
  <2>4. PICK x : x = FieldAt(place)
    OBVIOUS
  <2>5. x.enum = Top.enum /\ t \in Pointees(x.type)
    BY <1>0, <2>3, <2>4
  <2>6. x \in WrittenFields(nodes[p].of) /\ nodes[p].of \in Structs(Subject)
    BY <2>2, <2>4 DEF WrittenFields, Sight, InSight
  <2> QED BY <1>5, <2>5, <2>6 DEF Unlistable
<1>6. \A p \in DOMAIN nodes : StructNode(p) => \A place \in PlacesOf(nodes[p].of) :
              Ahead(p, place) => Ahead(p, place)'
  BY <1>1, AheadElsewhere DEF Stacks
<1>7. \A c \in new : c.do \in {"of", "elements"} /\ c.enum # "none" =>
              /\ c.do = "of" => FieldTag(c.path)'
              /\ c.do = "elements" => Unlistable(c.enum)
  BY <1>5
<1>8. \A q \in DOMAIN nodes' :
              /\ nodes'[q].repeats => nodes'[q].enum
              /\ nodes'[q].enum => \/ q \in DOMAIN nodes /\ nodes[q].enum
                                   \/ /\ FieldTag(q)' /\ ~Named(nodes'[q].of)
                                      /\ go[nodes'[q].of].kind # "struct"
  <2> SUFFICES ASSUME NEW q \in DOMAIN nodes'
               PROVE  /\ nodes'[q].repeats => nodes'[q].enum
                      /\ nodes'[q].enum => \/ q \in DOMAIN nodes /\ nodes[q].enum
                                           \/ /\ FieldTag(q)' /\ ~Named(nodes'[q].of)
                                              /\ go[nodes'[q].of].kind # "struct"
    OBVIOUS
  <2>1. CASE q \in DOMAIN nodes
    BY <2>1 DEF Adds, Tagged, NodesTagged
  <2>2. CASE q = path
    <3>1. nodes'[q] = node
      BY <2>2 DEF Adds
    <3>2. node.enum => FieldTag(path)
      BY <1>2 DEF Tagged, CallsTagged
    <3> QED BY <1>4, <2>2, <3>1, <3>2
  <2> QED BY <2>1, <2>2 DEF Adds
<1>9. \A p \in DOMAIN nodes' : p \notin DOMAIN nodes /\ StructNode(p)' =>
              \A place \in PlacesOf(nodes'[p].of) : Ahead(p, place)'
  BY DEF Adds
<1> QED BY <1>1, <1>3, <1>6, <1>7, <1>8, <1>9, TagStep

LEMMA LeafTags ==
    ASSUME ModelSchemasInv, Shape, Sight, Tagged, Derives, Refer \/ WriteScalar
    PROVE  Tagged'
<1>1. PICK node :
              /\ Stacks({}, {}) /\ Adds(Top.path, node)
              /\ node.of = Top.type /\ node.null = FALSE /\ node.repeats = FALSE
              /\ \/ /\ Named(Top.type) /\ node.kind = "ref" /\ node.enum = FALSE
                 \/ /\ ~Named(Top.type) /\ node.kind = SchemaKind(go[Top.type].kind)
                    /\ go[Top.type].kind \in {"time", "any", "string", "integer", "byte", "other"}
                    /\ node.kind \notin {"ref", "array", "object"}
                    /\ node.enum = (Top.enum # "none") /\ ~EnumRefused(node.kind, Top.enum)
              /\ Top.do = "of" /\ go[Top.type].kind # "pointer"
              /\ UNCHANGED <<locals, inline, seen>>
  BY LeafView DEF Derives
<1>2. Runs("of")
  BY DEF Refer, WriteScalar, Describes
<1>3. PICK path, t : path = Top.path /\ t = Top.type
  OBVIOUS
<1>4. ~Listed(path)' /\ ~StructNode(path)'
  BY <1>1, <1>3 DEF Adds, Listed, StructNode
<1>5. WritesTagged(path, t, node, {})
  BY <1>1, <1>3, <1>4 DEF WritesTagged
<1> QED BY <1>1, <1>2, <1>5, WrittenTags

LEMMA EnterElementsTags ==
    ASSUME ModelSchemasInv, Shape, Sight, Tagged, EnterElements
    PROVE  Tagged'
<1>1. PICK f, g, node, step :
              /\ Stacks({f, g}, {<<f, g>>}) /\ Adds(Top.path, node)
              /\ f.do = "elements" /\ f.enum = Top.enum
              /\ g.do = "of" /\ g.path = Append(Top.path, step) /\ g.type = go[Top.type].elem
              /\ g.enum = "none" /\ step \in Step
              /\ node.of = Top.type /\ node.null = FALSE /\ node.repeats = FALSE /\ node.enum = FALSE
              /\ node.kind = (IF go[Top.type].kind = "map" THEN "object" ELSE "array")
              /\ Top.do = "of" /\ ~Named(Top.type) /\ go[Top.type].kind \in {"list", "array", "map"}
              /\ go[Top.type].kind = "list" => go[go[Top.type].elem].kind # "byte"
              /\ go[Top.type].kind = "map" => go[Top.type].textKeys
              /\ UNCHANGED <<locals, inline, seen>>
  BY ElementsView
<1>2. Runs("of")
  BY DEF EnterElements, Describes
<1>3. PICK path, t : path = Top.path /\ t = Top.type
  OBVIOUS
<1>4. ~StructNode(path)'
  <2>1. go' = go
    BY <1>1, SameSubject, SameTypes
  <2> QED BY <1>1, <1>3, <2>1 DEF Adds, StructNode
<1>5. WritesTagged(path, t, node, {f, g})
  <2>1. \A c \in {f, g} :
          /\ c.do # "nullable"
          /\ c.do = "of" => c.enum = "none" /\ \E s \in Step : c.path = Append(path, s)
          /\ c.do = "elements" => /\ c.enum = Top.enum /\ ~Named(t)
                                  /\ go[t].kind \in {"list", "array", "map"}
    BY <1>1, <1>3
  <2>2. node.enum = (node.kind \notin {"ref", "array", "object"} /\ Top.enum # "none")
           /\ node.kind \in {"array", "object"}
    BY <1>1
  <2> QED BY <1>1, <1>3, <1>4, <2>1, <2>2 DEF WritesTagged
<1>6. \A e \in {<<f, g>>} : e[2] \in {f, g}
  OBVIOUS
<1> QED BY <1>1, <1>2, <1>5, <1>6, WrittenTags

LEMMA EnterStructTags ==
    ASSUME ModelSchemasInv, Shape, Sight, Tagged, Derives, EnterStruct
    PROVE  Tagged'
<1>1. PICK f, g, node :
              /\ Stacks({f, g}, {<<f, g>>}) /\ Adds(Top.path, node)
              /\ f.do = "close" /\ f.type = Top.type
              /\ g = FieldsFrame(Top.type, 1, Top.path)
              /\ node = Written("object", Top.type)
              /\ Top.do = "of" /\ ~Named(Top.type) /\ go[Top.type].kind = "struct"
              /\ inline' = inline \cup {Top.type}
              /\ UNCHANGED <<locals, seen>>
  BY StructView DEF Derives
<1>2. Runs("of")
  BY DEF EnterStruct, Describes
<1>3. PICK path, t : path = Top.path /\ t = Top.type
  OBVIOUS
<1>4. /\ g.do = "fields" /\ g.path = path /\ node.of = t /\ node.null = FALSE
      /\ node.repeats = FALSE /\ node.enum = FALSE /\ node.kind = "object"
  BY <1>1, <1>3 DEF FieldsFrame, Written
<1>5. input' = input /\ go' = go /\ input \in Inputs /\ t \in Types
  BY <1>1, <1>2, <1>3, OfCall, SameSubject, SameTypes
<1>6. ~Listed(path)'
  BY <1>1, <1>3, <1>4, <1>5 DEF Adds, Listed
<1>7. \A place \in PlacesOf(t) : Ahead(path, place)'
  <2>1. \A place \in PlacesOf(t) : Reaches(g, place)
    BY <1>1, <1>3, <1>5, AllAhead
  <2>2. g \in Calls'
    BY <1>1 DEF Stacks, Goes
  <2> QED BY <1>4, <1>5, <2>1, <2>2, SameTypes DEF Ahead
<1>8. WritesTagged(path, t, node, {f, g})
  <2>1. \A c \in {f, g} : c.do \notin {"nullable", "of", "elements"}
    BY <1>1, <1>4
  <2> QED BY <1>1, <1>3, <1>4, <1>6, <1>7, <2>1 DEF WritesTagged
<1>9. \A e \in {<<f, g>>} : e[2] \in {f, g}
  OBVIOUS
<1> QED BY <1>1, <1>2, <1>8, <1>9, WrittenTags

LEMMA MakeNullableTags ==
    ASSUME ModelSchemasInv, Shape, Tagged, Derives, MakeNullable
    PROVE  Tagged'
<1>1. PICK new :
              /\ Stacks({}, {}) /\ Top.do = "nullable" /\ Top.path \in DOMAIN nodes
              /\ DOMAIN nodes' = DOMAIN nodes /\ nodes'[Top.path] = new
              /\ \A p \in DOMAIN nodes : p # Top.path => nodes'[p] = nodes[p]
              /\ new.kind = nodes[Top.path].kind /\ new.of = nodes[Top.path].of
              /\ new.enum = nodes[Top.path].enum
              /\ new.null = (new.kind # "any")
              /\ new.repeats = (nodes[Top.path].repeats \/ (nodes[Top.path].enum /\ nodes[Top.path].null))
              /\ UNCHANGED <<locals, inline, seen>>
  BY MakeNullableView
<1>2. PICK path : path = Top.path
  OBVIOUS
<1>3. PICK node : node = nodes[path]
  OBVIOUS
<1>4. input' = input /\ KeepsNodes /\ UNCHANGED locals /\ go' = go
  BY <1>1, DerivesView, SameTypes
<1>5. /\ Waits(path) /\ (Waits(path)' => Twice(path)) /\ (Twice(path) => Waits(path)')
      /\ Twice(path)' => Twice(path)
  <2>1. Waits(path)
    BY <1>1, <1>2 DEF Waits, Stacks, Goes
  <2>2. \A c \in Below : <<c, Top>> \in CallPairs
    BY <1>1 DEF Stacks
  <2>3. Waits(path)' => Twice(path)
    <3> SUFFICES ASSUME Waits(path)' PROVE Twice(path)
      OBVIOUS
    <3>1. PICK c \in Below : c.do = "nullable" /\ c.path = path
      BY <1>1 DEF Waits, Stacks, Goes
    <3>2. <<c, Top>> \in CallPairs /\ <<c, Top>>[1] = c /\ <<c, Top>>[2] = Top
      BY <2>2
    <3> QED BY <1>1, <1>2, <3>1, <3>2 DEF Twice
  <2>4. \A e \in CallPairs : e[1] \in Below
    BY <1>1 DEF Stacks
  <2>5. Twice(path) => Waits(path)'
    BY <1>1, <2>4 DEF Twice, Waits, Stacks, Goes
  <2>6. CallPairs' \subseteq CallPairs
    BY <1>1 DEF Stacks
  <2>7. Twice(path)' => Twice(path)
    BY <2>6 DEF Twice
  <2> QED BY <2>1, <2>3, <2>5, <2>7
<1>6. \A c \in Calls \cup Calls' : c.do # "of"
  BY <1>1 DEF Stacks, Goes, OnlyInnermost
<1>7. ASSUME NEW x, TagFits(path, x) PROVE TagFits(path, x)'
  <2>1. NodeTagged(path, x) /\ (Twice(path) => Deep(x.type))
    BY <1>1, <1>2, <1>7 DEF TagFits
  <2>2. (Listed(path)' <=> Listed(path)) /\ (Scalar(path)' <=> Scalar(path))
    BY <1>1, <1>2, <1>4 DEF Listed, Scalar
  <2>3. (\E c \in Calls : c.do = "elements" /\ c.enum # "none") =>
           \E c \in Calls' : c.do = "elements" /\ c.enum # "none"
    BY <1>1 DEF Stacks, Goes
  <2>4. Pointees(x.type)' = Pointees(x.type) /\ (Deep(x.type)' <=> Deep(x.type))
    BY <1>4, SameTypes DEF Deep
  <2>5. /\ node.of \in Pointees(x.type)
        /\ node.enum <=> Scalar(path) /\ x.enum # "none"
        /\ node.enum => node.kind # "any"
        /\ Scalar(path) => ~EnumRefused(SchemaKind(go[node.of].kind), x.enum)
        /\ Listed(path) /\ x.enum # "none" => \E c \in Calls : c.do = "elements" /\ c.enum # "none"
        /\ Deep(x.type) /\ node.enum => node.repeats \/ (node.null /\ Waits(path)) \/ Twice(path)
        /\ (node.null /\ Waits(path)) \/ node.repeats => Deep(x.type)
    BY <1>3, <2>1 DEF NodeTagged
  <2>6. /\ new.of = node.of /\ new.kind = node.kind /\ new.enum = node.enum
        /\ new.null <=> node.kind # "any"
        /\ new.repeats <=> node.repeats \/ (node.enum /\ node.null)
        /\ nodes'[path] = new
    BY <1>1, <1>2, <1>3
  <2>7. /\ Deep(x.type) /\ new.enum => new.repeats \/ (new.null /\ Waits(path)') \/ Twice(path)'
        /\ (new.null /\ Waits(path)') \/ new.repeats => Deep(x.type)
    BY <1>5, <2>1, <2>5, <2>6
  <2>8. NodeTagged(path, x)'
    <3>1. nodes'[path] = new /\ new.of \in Pointees(x.type)' /\ go' = go
      BY <1>4, <2>4, <2>5, <2>6
    <3>2. /\ new.enum <=> Scalar(path)' /\ x.enum # "none"
          /\ new.enum => new.kind # "any"
      BY <2>2, <2>5, <2>6
    <3>3. Scalar(path)' => ~EnumRefused(SchemaKind(go'[new.of].kind), x.enum)
      BY <2>2, <2>5, <2>6, <3>1
    <3>4. Listed(path)' /\ x.enum # "none" => \E c \in Calls' : c.do = "elements" /\ c.enum # "none"
      BY <2>2, <2>3, <2>5
    <3>5. /\ Deep(x.type)' /\ new.enum => new.repeats \/ (new.null /\ Waits(path)') \/ Twice(path)'
          /\ (new.null /\ Waits(path)') \/ new.repeats => Deep(x.type)'
      BY <2>4, <2>7
    <3> QED BY <3>1, <3>2, <3>3, <3>4, <3>5 DEF NodeTagged
  <2> QED BY <1>5, <1>6, <2>1, <2>4, <2>8 DEF TagFits
<1>8. ASSUME NEW q \in seen, NEW x, TagFits(q, x) PROVE TagFits(q, x)'
  <2>1. CASE q = path
    BY <1>7, <1>8, <2>1
  <2>2. CASE q # path
    <3>1. \A c \in {} \cup {Top} : c.do \in {"of", "nullable"} => c.path # q
      BY <1>2, <2>2
    <3>2. q \in DOMAIN nodes' => q \in DOMAIN nodes /\ nodes'[q] = nodes[q]
      BY <1>1, <1>2, <2>2
    <3> QED BY <1>1, <1>4, <1>8, <3>1, <3>2, TagStays
  <2> QED BY <2>1, <2>2
<1>9. \A p \in DOMAIN nodes : StructNode(p) => \A place \in PlacesOf(nodes[p].of) :
              Ahead(p, place) => Ahead(p, place)'
  BY <1>1, <1>4, AheadElsewhere DEF Stacks
<1>10. \A q \in DOMAIN nodes' : /\ nodes'[q].repeats => nodes'[q].enum
                                /\ nodes'[q].enum => q \in DOMAIN nodes /\ nodes[q].enum
  BY <1>1 DEF Tagged, NodesTagged
<1>11. \A p \in DOMAIN nodes' : p \in DOMAIN nodes
  BY <1>1
<1>12. \A q \in seen' : q \in seen
  BY <1>1
<1> QED BY <1>1, <1>4, <1>8, <1>9, <1>10, <1>11, <1>12, TagStep

LEMMA BeginTags ==
    ASSUME ModelSchemasInv, BeginModel, ~Refuse
    PROVE  Tagged'
<1> SUFFICES ASSUME NEW t, t = models[index].type PROVE Tagged'
  OBVIOUS
<1>1. seen' = {} /\ UNCHANGED <<input, index, out>>
  BY DEF BeginModel
<1>2. t \in Types /\ input \in Inputs /\ input' = input /\ go' = go
  BY <1>1, ModelUnderWay, SameTypes DEF BeginModel
<1>3. SeenRooted'
  BY <1>1 DEF SeenRooted
<1>4. CASE /\ go[t].kind = "struct"
           /\ stack' = <<CloseFrame(t), FieldsFrame(t, 1, <<>>)>>
           /\ nodes' = [p \in {<<>>} |-> Written("object", t)]
  <2> DEFINE f == CloseFrame(t)
  <2> DEFINE g == FieldsFrame(t, 1, <<>>)
  <2> DEFINE node == Written("object", t)
  <2>1. /\ f.do = "close" /\ g.do = "fields" /\ g.path = <<>>
        /\ node.of = t /\ node.enum = FALSE /\ node.repeats = FALSE
    BY DEF CloseFrame, FieldsFrame, Written
  <2>2. \A place \in PlacesOf(t) : Reaches(g, place)
    BY <1>2, AllAhead
  <2> HIDE DEF f, g, node
  <2>3. DOMAIN stack' = {1, 2} /\ stack'[1] = f /\ stack'[2] = g
    BY <1>4 DEF f, g
  <2>4. Calls' = {f, g}
    BY <2>3 DEF Calls
  <2>5. DOMAIN nodes' = {<<>>} /\ nodes'[<<>>] = node
    BY <1>4 DEF node
  <2>6. CallsTagged' /\ NodesTagged'
    BY <2>1, <2>4, <2>5 DEF CallsTagged, NodesTagged
  <2>7. \A place \in PlacesOf(t) : Ahead(<<>>, place)'
    BY <1>2, <2>1, <2>2, <2>4, SameTypes DEF Ahead
  <2>8. FieldsTagged'
    BY <1>2, <2>1, <2>5, <2>7, SameTypes DEF FieldsTagged
  <2> QED BY <1>3, <2>6, <2>8 DEF Tagged
<1>5. CASE stack' = <<OfFrame(t, "none", <<>>)>> /\ nodes' = Empty
  <2> DEFINE g == OfFrame(t, "none", <<>>)
  <2>1. g.enum = "none"
    BY DEF OfFrame
  <2> HIDE DEF g
  <2>2. DOMAIN stack' = {1} /\ stack'[1] = g
    BY <1>5 DEF g
  <2>3. Calls' = {g} /\ DOMAIN nodes' = {}
    BY <1>5, <2>2 DEF Calls, Empty
  <2> QED BY <1>3, <2>1, <2>3 DEF Tagged, CallsTagged, NodesTagged, FieldsTagged
<1> QED BY <1>4, <1>5 DEF BeginModel

-----------------------------------------------------------------------------
(* A field is written once: no two calls of fields reach it, and its       *)
(* property is not taken before.                                           *)

NotYet ==
    \A p \in DOMAIN nodes : StructNode(p) /\ ~Collides(nodes[p].of) =>
        \A place \in PlacesOf(nodes[p].of) :
            Ahead(p, place) => Append(p, FieldAt(place).property) \notin seen

Apart ==
    \A e \in CallPairs :
        e[1].do = "fields" /\ e[2].do = "fields" /\ e[1].path = e[2].path
                           /\ ~Collides(nodes[e[1].path].of) =>
            \A place \in PlacesOf(nodes[e[1].path].of) : ~(Reaches(e[1], place) /\ Reaches(e[2], place))

LEMMA PlaceIsOwn ==
    ASSUME input \in Inputs, NEW t, NEW place \in PlacesOf(t)
    PROVE  /\ place[1] \in Parts(t) /\ place[1] \in Types
           /\ place[2] \in DOMAIN go[place[1]].fields /\ place[2] \in Nat
           /\ place = <<place[1], place[2]>>
           /\ place \in PlacesOf(place[1]) /\ Writes(FieldAt(place))
<1>1. PICK s \in Parts(t) : \E i \in DOMAIN go[s].fields :
         Writes(go[s].fields[i]) /\ place = <<s, i>>
  BY PlaceParts
<1>2. PICK i \in DOMAIN go[s].fields : Writes(go[s].fields[i]) /\ place = <<s, i>>
  BY <1>1
<1>3. s \in Types
  BY PartsAreTypes
<1>4. i \in Nat
  BY <1>3, FieldsIn
<1>5. place \in PlacesOf(s)
  BY <1>2, <1>3, PartOfItself, PlaceParts
<1>6. place[1] = s /\ place[2] = i
  BY <1>2
<1> QED BY <1>2, <1>3, <1>4, <1>5, <1>6 DEF FieldAt

LEMMA ReachesPart ==
    ASSUME input \in Inputs, NEW c, c.type \in Types, NEW place, Reaches(c, place)
    PROVE  place[1] \in Parts(c.type)
<1>1. CASE c.type = place[1]
  BY <1>1, PartOfItself
<1>2. ASSUME NEW m \in DOMAIN go[c.type].fields, Promotes(go[c.type].fields[m]),
             place[1] \in Parts(Inner(go[c.type].fields[m]))
      PROVE  place[1] \in Parts(c.type)
  <2>1. Inner(go[c.type].fields[m]) \in Promoted(c.type)
    BY <1>2, PromotedTypes
  <2>2. c.type \in Parts(c.type)
    BY PartOfItself
  <2>3. Inner(go[c.type].fields[m]) \in Parts(c.type)
    BY <2>1, <2>2, PromotedInParts
  <2> QED BY <1>2, <2>3, PartOfPart
<1> QED BY <1>1, <1>2 DEF Reaches

\* What is left of a call reaches no more than the call.
LEMMA GoOnIsLess ==
    ASSUME ModelSchemasInv, Shape, Runs("fields"), NEW t, NEW place \in PlacesOf(t),
           Reaches(GoOn, place)
    PROVE  Reaches(Top, place)
<1>1. PICK h : h = GoOn
  OBVIOUS
<1>2. h.type = Top.type /\ h.next = Top.next + 1 /\ Top.next \in Nat
  BY <1>1, FieldsCall DEF GoOn, FieldsFrame
<1>3. place[2] \in Nat /\ \A m \in DOMAIN go[Top.type].fields : m \in Nat
  BY FieldsCall, PlaceIsOwn
<1>4. Reaches(h, place)
  BY <1>1
<1>5. CASE h.type = place[1] /\ h.next <= place[2]
  <2>1. Top.type = place[1] /\ Top.next <= place[2]
    BY <1>2, <1>3, <1>5
  <2> QED BY <2>1 DEF Reaches
<1>6. ASSUME NEW m \in DOMAIN go[h.type].fields, h.next <= m, Promotes(go[h.type].fields[m]),
             place[1] \in Parts(Inner(go[h.type].fields[m]))
      PROVE  Reaches(Top, place)
  <2>1. m \in DOMAIN go[Top.type].fields /\ Top.next <= m
    BY <1>2, <1>3, <1>6
  <2> QED BY <1>2, <1>6, <2>1 DEF Reaches
<1> QED BY <1>4, <1>5, <1>6 DEF Reaches

\* A call of fields that begins at an object under way reaches what the innermost did.
Follows(new) ==
    \A d \in new : d.do = "fields" =>
        \/ d.path \notin DOMAIN nodes
        \/ /\ Top.do = "fields" /\ Top.path = d.path
           /\ \A place \in PlacesOf(nodes[d.path].of) : Reaches(d, place) => Reaches(Top, place)

LEMMA InnerFollows ==
    ASSUME ModelSchemasInv, Shape, PromoteFields,
           NEW f, f = FieldsFrame(Inner(CurrentField), 1, Top.path), NEW place, Reaches(f, place)
    PROVE  /\ Reaches(Top, place) /\ place[1] \in Parts(Inner(CurrentField))
           /\ Inner(CurrentField) \in Promoted(Top.type) /\ Top.next \in DOMAIN go[Top.type].fields
<1>1. Runs("fields") /\ AtField /\ Promotes(CurrentField) /\ Inner(CurrentField) \in Types
  BY PromoteFieldsView
<1>2. f.type = Inner(CurrentField) /\ input \in Inputs
  BY <1>1, FieldsCall DEF FieldsFrame
<1>3. place[1] \in Parts(Inner(CurrentField))
  BY <1>1, <1>2, ReachesPart
<1>4. Top.next \in DOMAIN go[Top.type].fields /\ Top.next <= Top.next /\ Top.type \in Types
  BY <1>1, FieldsCall DEF AtField
<1>5. Reaches(Top, place)
  BY <1>1, <1>3, <1>4 DEF Reaches, CurrentField
<1>6. Inner(CurrentField) \in Promoted(Top.type)
  BY <1>1, <1>2, <1>4, PromotedTypes DEF CurrentField
<1> QED BY <1>3, <1>4, <1>5, <1>6

\* Of the calls that begin, two go through one object only where a struct is embedded.
LEMMA CallsFollow ==
    ASSUME ModelSchemasInv, Shape, Derives
    PROVE  \E new, order :
              /\ Stacks(new, order) /\ Follows(new)
              /\ \A e \in order :
                    \/ e[1].do # "fields" \/ e[2].do # "fields"
                    \/ PromoteFields /\ e[1] = GoOn
                                     /\ e[2] = FieldsFrame(Inner(CurrentField), 1, Top.path)
              /\ \A d \in new : d.do = "fields" => Top.path \notin DOMAIN nodes \/ Top.do = "fields"
<1>0. PICK h : h = GoOn
  OBVIOUS
<1>9. /\ h.do = "fields" /\ h.path = Top.path
      /\ Runs("fields") => \A t : \A place \in PlacesOf(t) : Reaches(h, place) => Reaches(Top, place)
  BY <1>0, GoOnIsLess DEF GoOn, FieldsFrame
<1>1. CASE EndElements \/ CloseStruct \/ EndFields
  <2>1. Stacks({}, {})
    BY <1>1, EndElementsView, CloseView, EndFieldsView DEF Derives
  <2> QED BY <2>1 DEF Follows
<1>2. CASE Dereference
  <2>1. PICK f, g :
              /\ Stacks({f, g}, {<<f, g>>})
              /\ f.do = "nullable" /\ f.path = Top.path
              /\ g.do = "of" /\ g.path = Top.path /\ g.type = go[Top.type].elem /\ g.enum = Top.enum
              /\ Top.do = "of" /\ go[Top.type].kind = "pointer"
              /\ UNCHANGED <<locals, inline, seen, nodes>>
    BY <1>2, DereferenceView, Zenon
  <2>2. \A d \in {f, g} : d.do # "fields"
    BY <2>1
  <2>3. \A e \in {<<f, g>>} : e[1].do # "fields"
    BY <2>1
  <2> QED BY <2>1, <2>2, <2>3 DEF Follows
<1>3. CASE Refer \/ WriteScalar
  <2>1. Stacks({}, {})
    BY <1>3, LeafView DEF Derives
  <2> QED BY <2>1 DEF Follows
<1>4. CASE EnterElements
  <2>1. PICK f, g : Stacks({f, g}, {<<f, g>>}) /\ f.do = "elements" /\ g.do = "of"
    <3>1. PICK f, g, node, step :
              /\ Stacks({f, g}, {<<f, g>>}) /\ Adds(Top.path, node)
              /\ f.do = "elements" /\ f.enum = Top.enum
              /\ g.do = "of" /\ g.path = Append(Top.path, step) /\ g.type = go[Top.type].elem
              /\ g.enum = "none" /\ step \in Step
              /\ node.of = Top.type /\ node.null = FALSE /\ node.repeats = FALSE /\ node.enum = FALSE
              /\ node.kind = (IF go[Top.type].kind = "map" THEN "object" ELSE "array")
              /\ Top.do = "of" /\ ~Named(Top.type) /\ go[Top.type].kind \in {"list", "array", "map"}
              /\ go[Top.type].kind = "list" => go[go[Top.type].elem].kind # "byte"
              /\ go[Top.type].kind = "map" => go[Top.type].textKeys
              /\ UNCHANGED <<locals, inline, seen>>
      BY <1>4, ElementsView
    <3> QED BY <3>1
  <2>2. \A d \in {f, g} : d.do # "fields"
    BY <2>1
  <2>3. \A e \in {<<f, g>>} : e[1].do # "fields"
    BY <2>1
  <2> QED BY <2>1, <2>2, <2>3 DEF Follows
<1>5. CASE EnterStruct
  <2>1. PICK f, g, node :
              /\ Stacks({f, g}, {<<f, g>>}) /\ Adds(Top.path, node)
              /\ f.do = "close" /\ f.type = Top.type
              /\ g = FieldsFrame(Top.type, 1, Top.path)
              /\ node = Written("object", Top.type)
              /\ Top.do = "of" /\ ~Named(Top.type) /\ go[Top.type].kind = "struct"
              /\ inline' = inline \cup {Top.type}
              /\ UNCHANGED <<locals, seen>>
    BY <1>5, StructView DEF Derives
  <2>2. g.path \notin DOMAIN nodes /\ g.path = Top.path
    BY <2>1 DEF Adds, FieldsFrame
  <2>3. \A d \in {f, g} : d.do = "fields" => d.path \notin DOMAIN nodes
    BY <2>1, <2>2
  <2>4. \A e \in {<<f, g>>} : e[1].do # "fields"
    BY <2>1
  <2>5. \A d \in {f, g} : d.do = "fields" => Top.path \notin DOMAIN nodes
    BY <2>2
  <2> QED BY <2>1, <2>3, <2>4, <2>5 DEF Follows
<1>6. CASE MakeNullable
  <2>1. Stacks({}, {})
    BY <1>6, MakeNullableView
  <2> QED BY <2>1 DEF Follows
<1>7. CASE SkipField
  <2>1. Stacks({h}, {}) /\ Runs("fields") /\ Top.do = "fields"
    BY <1>0, <1>7, SkipFieldView, FieldsCall
  <2> QED BY <1>9, <2>1 DEF Follows
<1>8. CASE PromoteFields
  <2>1. PICK f : f = FieldsFrame(Inner(CurrentField), 1, Top.path)
    OBVIOUS
  <2>2. Stacks({h, f}, {<<h, f>>}) /\ Runs("fields") /\ Top.do = "fields"
    BY <1>0, <1>8, <2>1, PromoteFieldsView, FieldsCall
  <2>3. f.do = "fields" /\ f.path = Top.path
    BY <2>1 DEF FieldsFrame
  <2>4. \A place : Reaches(f, place) => Reaches(Top, place)
    BY <1>8, <2>1, InnerFollows
  <2>5. \A e \in {<<h, f>>} : e[1] = h /\ e[2] = f
    OBVIOUS
  <2>6. Follows({h, f})
    BY <1>9, <2>2, <2>3, <2>4 DEF Follows
  <2> QED BY <1>0, <1>8, <2>1, <2>2, <2>5, <2>6
<1>10. CASE WriteField
  <2>1. PICK f : Stacks({h, f}, {<<h, f>>}) /\ Runs("fields") /\ f.do = "of" /\ Top.do = "fields"
    BY <1>0, <1>10, WriteFieldView, FieldsCall DEF Derives
  <2>2. \A e \in {<<h, f>>} : e[2].do # "fields"
    BY <2>1
  <2>3. Follows({h, f})
    BY <1>9, <2>1 DEF Follows
  <2> QED BY <2>1, <2>2, <2>3
<1> QED BY <1>1, <1>2, <1>3, <1>4, <1>5, <1>6, <1>7, <1>8, <1>10 DEF Derives

\* Where the innermost call did not reach none that begins does.
LEMMA AheadBefore ==
    ASSUME NEW new, Goes(new), Follows(new), input' = input, NEW p \in DOMAIN nodes,
           Top \in Calls, NEW place \in PlacesOf(nodes[p].of), Ahead(p, place)'
    PROVE  Ahead(p, place)
<1>1. PICK c \in Calls' : c.do = "fields" /\ c.path = p /\ Reaches(c, place)
  BY SameTypes DEF Ahead
<1>2. CASE c \in Below
  BY <1>1, <1>2 DEF Ahead, Goes
<1>3. CASE c \in new
  BY <1>1, <1>3 DEF Ahead, Follows
<1> QED BY <1>1, <1>2, <1>3 DEF Goes

LEMMA GoOnIsApart ==
    ASSUME ModelSchemasInv, Shape, PromoteFields, ~Collides(nodes[Top.path].of),
           NEW f, f = FieldsFrame(Inner(CurrentField), 1, Top.path),
           NEW place \in PlacesOf(nodes[Top.path].of), Reaches(GoOn, place), Reaches(f, place)
    PROVE  FALSE
<1>0. PICK u : u = nodes[Top.path].of
  OBVIOUS
<1>1. /\ Runs("fields") /\ AtField /\ Promotes(CurrentField) /\ input \in Inputs
      /\ Top.type \in Parts(u) /\ Top.type \in Types
  BY <1>0, PromoteFieldsView, FieldsCall
<1>2. /\ place[1] \in Parts(Inner(CurrentField)) /\ Top.next \in DOMAIN go[Top.type].fields
      /\ Inner(CurrentField) \in Promoted(Top.type)
  BY InnerFollows
<1>3. place \in PlacesOf(place[1]) /\ place[2] \in Nat
  BY <1>1, PlaceIsOwn
<1>4. PICK h : h = GoOn
  OBVIOUS
<1>5. h.type = Top.type /\ h.next = Top.next + 1 /\ Top.next \in Nat /\ Reaches(h, place)
  BY <1>1, <1>4, FieldsCall DEF GoOn, FieldsFrame
<1>6. CASE h.type = place[1]
  BY <1>0, <1>1, <1>2, <1>3, <1>5, <1>6, NotAround
<1>7. ASSUME NEW m \in DOMAIN go[h.type].fields, h.next <= m, Promotes(go[h.type].fields[m]),
             place[1] \in Parts(Inner(go[h.type].fields[m]))
      PROVE  FALSE
  <2>1. m \in DOMAIN go[Top.type].fields /\ m \in Nat
    BY <1>1, <1>5, <1>7, FieldsIn
  <2>2. m # Top.next
    BY <1>5, <1>7, <2>1
  <2>3. place[1] \in Parts(Inner(go[Top.type].fields[Top.next]))
           /\ Promotes(go[Top.type].fields[Top.next])
    BY <1>1, <1>2 DEF CurrentField
  <2>4. Promotes(go[Top.type].fields[m]) /\ place[1] \in Parts(Inner(go[Top.type].fields[m]))
    BY <1>5, <1>7
  <2> QED BY <1>0, <1>1, <1>2, <1>3, <2>1, <2>2, <2>3, <2>4, NoCommonPart
<1> QED BY <1>5, <1>6, <1>7 DEF Reaches

LEMMA ApartStays ==
    ASSUME ModelSchemasInv, Shape, Derives, Apart
    PROVE  Apart'
<1>1. PICK new, order :
              /\ Stacks(new, order) /\ Follows(new)
              /\ \A e \in order :
                    \/ e[1].do # "fields" \/ e[2].do # "fields"
                    \/ PromoteFields /\ e[1] = GoOn
                                     /\ e[2] = FieldsFrame(Inner(CurrentField), 1, Top.path)
              /\ \A d \in new : d.do = "fields" => Top.path \notin DOMAIN nodes \/ Top.do = "fields"
  BY CallsFollow
<1>2. input' = input /\ KeepsNodes
  BY DerivesView
<1>3. \A c \in Calls : c.do = "fields" => c.path \in DOMAIN nodes
  BY DEF Shape, FieldsOfParts, StructNode
<1>4. /\ CallPairs = Lower \cup (Below \X {Top}) /\ CallPairs' = Lower \cup (Below \X new) \cup order
      /\ Lower \subseteq Below \X Below /\ Below \subseteq Calls /\ Top \in Calls
  BY <1>1 DEF Stacks, Goes
<1> SUFFICES ASSUME NEW e \in CallPairs', e[1].do = "fields", e[2].do = "fields",
                    e[1].path = e[2].path, NEW p, p = e[1].path, NEW u, u = nodes'[p].of,
                    ~Collides(u), NEW place \in PlacesOf(u),
                    Reaches(e[1], place), Reaches(e[2], place)
             PROVE  FALSE
  <2>1. /\ \A t : (Collides(t)' <=> Collides(t)) /\ PlacesOf(t)' = PlacesOf(t)
        /\ \A c, place : Reaches(c, place)' <=> Reaches(c, place)
    BY <1>2, SameSight, SameTypes
  <2> QED BY <2>1 DEF Apart
<1>5. PICK c, d : c = e[1] /\ d = e[2]
  OBVIOUS
<1>6. Reaches(c, place) /\ Reaches(d, place)
  BY <1>5
<1>7. ASSUME p \in DOMAIN nodes
      PROVE  place \in PlacesOf(nodes[p].of) /\ ~Collides(nodes[p].of)
  <2>1. nodes[p].of = u
    BY <1>2, <1>7 DEF KeepsNodes
  <2> QED BY <2>1
<1>8. CASE e \in Lower
  <2>1. c \in Calls /\ d \in Calls /\ e \in CallPairs
    BY <1>4, <1>5, <1>8
  <2> QED BY <1>3, <1>5, <1>6, <1>7, <2>1 DEF Apart
<1>9. CASE e \in Below \X new
  <2>1. c \in Below /\ d \in new /\ p \in DOMAIN nodes
    BY <1>3, <1>4, <1>5, <1>9
  <2>2. Top.do = "fields" /\ Top.path = p /\ Reaches(Top, place)
    BY <1>1, <1>5, <1>6, <1>7, <2>1 DEF Follows
  <2>3. <<c, Top>> \in CallPairs /\ <<c, Top>>[1] = c /\ <<c, Top>>[2] = Top
    BY <1>4, <2>1
  <2>4. c.do = "fields" /\ c.path = p
    BY <1>5
  <2> QED BY <1>6, <1>7, <2>1, <2>2, <2>3, <2>4 DEF Apart
<1>10. CASE e \in order
  <2>1. PromoteFields /\ c = GoOn /\ d = FieldsFrame(Inner(CurrentField), 1, Top.path)
    BY <1>1, <1>5, <1>10
  <2>2. p = Top.path /\ Runs("fields")
    BY <1>5, <2>1, PromoteFieldsView DEF GoOn, FieldsFrame
  <2>3. p \in DOMAIN nodes
    BY <1>3, <1>4, <2>2, FieldsCall
  <2> QED BY <1>6, <1>7, <2>1, <2>2, <2>3, GoOnIsApart
<1> QED BY <1>4, <1>8, <1>9, <1>10

\* The field that is written is before no other call.
LEMMA WrittenOnce ==
    ASSUME ModelSchemasInv, Shape, Derives, Apart, WriteField, NEW p, p = Top.path,
           ~Collides(nodes[p].of), NEW here, here = Here
    PROVE  ~Ahead(p, here)'
<1>0. PICK u : u = nodes[Top.path].of
  OBVIOUS
<1>1. PICK h : h = GoOn
  OBVIOUS
<1>2. PICK f : Stacks({h, f}, {<<h, f>>}) /\ f.do = "of" /\ AtField /\ Runs("fields")
                  /\ Writes(CurrentField)
  BY <1>1, WriteFieldView DEF Derives
<1>3. input' = input /\ input \in Inputs /\ p \in DOMAIN nodes /\ Top.type \in Parts(u) /\ Top.type \in Types
  BY <1>0, <1>2, DerivesView, FieldsCall DEF StructNode
<1>4. here \in PlacesOf(u) /\ here[1] = Top.type /\ here[2] = Top.next
      /\ Reaches(Top, here)
  BY <1>0, <1>2, HereIsAPlace DEF Here
<1>5. here \in PlacesOf(Top.type)
  BY <1>3, <1>4, PlaceIsOwn
<1>6. ~Reaches(h, here)
  <2>1. h.type = Top.type /\ h.next = Top.next + 1 /\ Top.next \in Nat
    BY <1>1, <1>2, FieldsCall DEF GoOn, FieldsFrame
  <2>2. ASSUME NEW m \in DOMAIN go[Top.type].fields, Promotes(go[Top.type].fields[m]),
               here[1] \in Parts(Inner(go[Top.type].fields[m]))
        PROVE  FALSE
    <3>1. Inner(go[Top.type].fields[m]) \in Promoted(Top.type)
      BY <1>3, <2>2, PromotedTypes
    <3> QED BY <1>0, <1>3, <1>4, <1>5, <2>2, <3>1, NotAround
  <2> QED BY <1>4, <2>1, <2>2 DEF Reaches
<1>7. ASSUME NEW c \in Below, c.do = "fields", c.path = p, Reaches(c, here) PROVE FALSE
  <2>1. <<c, Top>> \in CallPairs /\ <<c, Top>>[1] = c /\ <<c, Top>>[2] = Top
    BY <1>2 DEF Stacks
  <2>2. Top.do = "fields" /\ Top.path = p
    BY <1>0, <1>2, FieldsCall
  <2> QED BY <1>0, <1>4, <1>7, <2>1, <2>2 DEF Apart
<1>8. Calls' = Below \cup {h, f}
  BY <1>2 DEF Stacks, Goes
<1>9. ASSUME NEW c \in Calls', c.do = "fields", c.path = p, Reaches(c, here) PROVE FALSE
  BY <1>2, <1>6, <1>7, <1>8, <1>9
<1>10. \A c : Reaches(c, here)' <=> Reaches(c, here)
  BY <1>3, SameTypes
<1>11. ~\E c \in Calls' : c.do = "fields" /\ c.path = p /\ Reaches(c, here)
  BY <1>9
<1> QED BY <1>10, <1>11 DEF Ahead

LEMMA SeenAfter ==
    ASSUME ModelSchemasInv, Shape, Derives, ~WriteField
    PROVE  seen' = seen
<1>1. CASE Refer \/ WriteScalar
  <2>1. \E node : UNCHANGED <<locals, inline, seen>>
    BY <1>1, LeafView DEF Derives
  <2> QED BY <2>1
<1>2. CASE Dereference \/ EnterElements
  BY <1>2 DEF Dereference, EnterElements
<1>3. CASE EndElements \/ EnterStruct
  BY <1>3 DEF EndElements, EnterStruct, Derives
<1>4. CASE CloseStruct \/ MakeNullable \/ EndFields \/ SkipField \/ PromoteFields
  BY <1>4 DEF CloseStruct, MakeNullable, EndFields, SkipField, PromoteFields
<1> QED BY <1>1, <1>2, <1>3, <1>4 DEF Derives

LEMMA DerivesNext ==
    ASSUME ModelSchemasInv, Derives
    PROVE  ModelSchemasInv'
<1>1. ModelSchemasNext
  BY DEF Derives, ModelSchemasNext
<1> QED BY <1>1, StepKeeps

LEMMA NotYetStays ==
    ASSUME ModelSchemasInv, Shape, SeenRooted, Derives, Apart, NotYet
    PROVE  NotYet'
<1>1. PICK new, order : /\ Stacks(new, order) /\ Follows(new)
  BY CallsFollow
<1>2. input' = input /\ KeepsNodes
  BY DerivesView
<1>3. DOMAIN nodes' \subseteq Seq(Step) /\ DOMAIN nodes \subseteq Seq(Step) /\ input \in Inputs
  BY DerivesNext DEF ModelSchemasInv, ModelSchemasTypeOK
<1> SUFFICES ASSUME NEW p \in DOMAIN nodes', StructNode(p)', NEW u, u = nodes'[p].of,
                    ~Collides(u), NEW place \in PlacesOf(u), Ahead(p, place)',
                    NEW q, q = Append(p, FieldAt(place).property)
             PROVE  q \notin seen'
  <2>1. /\ \A t : (Collides(t)' <=> Collides(t)) /\ PlacesOf(t)' = PlacesOf(t)
        /\ \A place : FieldAt(place)' = FieldAt(place)
    BY <1>2, SameSight, SameTypes
  <2> QED BY <2>1 DEF NotYet
<1>4. FieldAt(place).property \in Step
  BY <1>3, WrittenFieldsType DEF Field, Step
<1>5. CASE p \notin DOMAIN nodes
  <2>1. ~WriteField
    BY <1>5, WriteFieldView DEF Derives
  <2>2. ASSUME q \in seen PROVE FALSE
    <3>1. PICK p0 \in DOMAIN nodes, s \in Step : q = Append(p0, s)
      BY <2>2 DEF SeenRooted
    <3> QED BY <1>3, <1>4, <1>5, <3>1, LastStep
  <2> QED BY <2>1, <2>2, SeenAfter
<1>6. CASE p \in DOMAIN nodes
  <2>1. u = nodes[p].of /\ StructNode(p)
    BY <1>2, <1>6, SameNodes DEF KeepsNodes
  <2>2. Ahead(p, place)
    <3>1. Top \in Calls /\ Goes(new)
      BY <1>1 DEF Stacks, Goes
    <3> QED BY <1>1, <1>2, <1>6, <2>1, <3>1, AheadBefore
  <2>3. q \notin seen
    BY <1>6, <2>1, <2>2 DEF NotYet
  <2>4. CASE WriteField
    <3>1. PICK path : /\ path = Append(Top.path, CurrentField.property)
                      /\ seen' = seen \cup {path}
                      /\ AtField /\ Runs("fields") /\ Writes(CurrentField) /\ CurrentField \in Field
      BY <2>4, WriteFieldView DEF Derives
    <3>2. PICK here : here = Here
      OBVIOUS
    <3>3. /\ FieldAt(here) = CurrentField /\ Top.path \in Seq(Step)
          /\ here \in PlacesOf(nodes[Top.path].of) /\ CurrentField.property \in Step
      BY <3>1, <3>2, HereIsAPlace, FieldsCall DEF Here, FieldAt, CurrentField, Field, Step
    <3>4. ASSUME q = path PROVE FALSE
      <4>1. p = Top.path /\ FieldAt(place).property = CurrentField.property
        <5>1. Append(p, FieldAt(place).property) = Append(Top.path, CurrentField.property)
          BY <3>1, <3>4
        <5>2. p \in Seq(Step)
          BY <1>3, <1>6
        <5> QED BY <1>4, <3>3, <5>1, <5>2, LastStep
      <4>2. place = here
        BY <2>1, <3>3, <4>1 DEF Collides
      <4>3. ~Ahead(p, here)'
        BY <2>1, <2>4, <3>2, <4>1, WrittenOnce
      <4> QED BY <4>2, <4>3
    <3> QED BY <2>3, <3>1, <3>4
  <2>5. CASE ~WriteField
    BY <2>3, <2>5, SeenAfter
  <2> QED BY <2>4, <2>5
<1> QED BY <1>5, <1>6

LEMMA BeginApart ==
    ASSUME ModelSchemasInv, BeginModel, ~Refuse
    PROVE  Apart' /\ NotYet'
<1>1. seen' = {}
  BY DEF BeginModel
<1>2. ASSUME NEW e \in CallPairs' PROVE e[1].do # "fields"
  <2>1. PICK i \in DOMAIN stack', j \in DOMAIN stack' : i < j /\ e = <<stack'[i], stack'[j]>>
    BY <1>2 DEF CallPairs
  <2>2. PICK t : t = models[index].type
    OBVIOUS
  <2>3. \/ stack' = <<CloseFrame(t), FieldsFrame(t, 1, <<>>)>>
        \/ stack' = <<OfFrame(t, "none", <<>>)>>
    BY <2>2 DEF BeginModel
  <2>4. stack'[i] = CloseFrame(t)
    BY <2>1, <2>3
  <2> QED BY <2>1, <2>4 DEF CloseFrame
<1> QED BY <1>1, <1>2 DEF Apart, NotYet

-----------------------------------------------------------------------------
(* What is refused cannot be described. *)

LEMMA NoTwoOutcomes ==
    ASSUME Refuse
    PROVE  at' = "refused"
BY DEF Refuse

\* The field a tag is of, with the struct it is part of.
LEMMA TaggedField ==
    ASSUME Sight, NEW q, FieldTag(q)
    PROVE  \E u \in Structs(Subject) : \E f \in WrittenFields(u) : TagFits(q, f)
<1>1. PICK p \in DOMAIN nodes : StructNode(p) /\ \E place \in PlacesOf(nodes[p].of) :
         q = Append(p, FieldAt(place).property) /\ TagFits(q, FieldAt(place))
  BY DEF FieldTag
<1>2. PICK u : u = nodes[p].of
  OBVIOUS
<1>3. PICK place \in PlacesOf(u) : TagFits(q, FieldAt(place))
  BY <1>1, <1>2
<1>4. u \in Structs(Subject) /\ FieldAt(place) \in WrittenFields(u)
  BY <1>1, <1>2 DEF Sight, InSight, WrittenFields
<1> QED BY <1>3, <1>4

LEMMA ScalarRefused ==
    ASSUME ModelSchemasInv, Shape, Sight, Tagged, WriteScalar, Refuse
    PROVE  Indescribable(Subject)
<1>1. /\ Runs("of") /\ ~Named(Top.type)
      /\ go[Top.type].kind \in {"time", "any", "string", "integer", "byte", "other"}
      /\ at = "derive"
  BY DEF WriteScalar, Describes, Runs
<1>2. EnumRefused(SchemaKind(go[Top.type].kind), Top.enum)
  BY <1>1 DEF WriteScalar, Refuse, locals
<1>3. Top.enum # "none"
  BY <1>2 DEF EnumRefused
<1>4. Top \in Calls /\ Top.do = "of" /\ input \in Inputs
  BY <1>1, OfCall
<1>5. FieldTag(Top.path)
  BY <1>3, <1>4 DEF Tagged, CallsTagged
<1>6. PICK u \in Structs(Subject) : \E f \in WrittenFields(u) : TagFits(Top.path, f)
  BY <1>5, TaggedField
<1>7. PICK f \in WrittenFields(u) : TagFits(Top.path, f)
  BY <1>6
<1>8. Top.enum = f.enum /\ Top.type \in Under(f.type)
  BY <1>4, <1>7 DEF TagFits, CallTagged
<1>9. Top.type \in Pointees(f.type)
  BY <1>1, <1>4, <1>8, UnderPointers
<1>10. NoEnum(f)
  BY <1>1, <1>2, <1>8, <1>9 DEF NoEnum
<1> QED BY <1>7, <1>10 DEF Indescribable

LEMMA TypeRefused ==
    ASSUME ModelSchemasInv, Shape, Sight, RefuseType
    PROVE  Indescribable(Subject)
<1>1. PICK t : t = Top.type
  OBVIOUS
<1>2. /\ Runs("of") /\ ~Named(t)
      /\ \/ go[t].kind = "none"
         \/ go[t].kind = "list" /\ go[go[t].elem].kind = "byte"
         \/ go[t].kind = "map" /\ ~go[t].textKeys
  BY <1>1 DEF RefuseType, Describes
<1>3. t \in ValuesIn(Subject)
  BY <1>1, <1>2, OfCall DEF Sight, InSight
<1>4. t \in Inlined(Subject)
  BY <1>2, <1>3 DEF Inlined
<1>5. Mute(t)
  BY <1>2 DEF Mute
<1> QED BY <1>4, <1>5 DEF Indescribable

LEMMA ElementsRefused ==
    ASSUME ModelSchemasInv, Shape, Tagged, EndElements, Refuse
    PROVE  Indescribable(Subject)
<1>1. Runs("elements") /\ at = "derive" /\ Top.do = "elements" /\ stack \in Seq(Frame) /\ stack # <<>>
  BY AtCall DEF EndElements, Runs
<1>2. Top.enum # "none"
  BY <1>1 DEF EndElements, Refuse, locals
<1>3. Top \in Calls
  BY <1>1, TopType DEF Calls, Top
<1>4. Unlistable(Top.enum)
  BY <1>1, <1>2, <1>3 DEF Tagged, CallsTagged
<1>5. PICK u \in Structs(Subject) : \E f \in WrittenFields(u) :
         /\ f.enum = Top.enum
         /\ \E v \in Pointees(f.type) : ~Named(v) /\ go[v].kind \in {"list", "array", "map"}
  BY <1>4 DEF Unlistable
<1>6. PICK f \in WrittenFields(u) :
         /\ f.enum = Top.enum
         /\ \E v \in Pointees(f.type) : ~Named(v) /\ go[v].kind \in {"list", "array", "map"}
  BY <1>5
<1>7. PICK v \in Pointees(f.type) : ~Named(v) /\ go[v].kind \in {"list", "array", "map"}
  BY <1>6
<1>8. SchemaKind(go[v].kind) \notin {"string", "integer"}
  BY <1>7 DEF SchemaKind
<1>9. EnumRefused(SchemaKind(go[v].kind), f.enum)
  BY <1>2, <1>6, <1>8 DEF EnumRefused
<1>10. NoEnum(f)
  BY <1>7, <1>9 DEF NoEnum
<1> QED BY <1>10 DEF Indescribable

LEMMA StructRefused ==
    ASSUME ModelSchemasInv, Shape, Sight, EnterStruct, Refuse
    PROVE  Indescribable(Subject)
<1>1. PICK t : t = Top.type
  OBVIOUS
<1>2. Runs("of") /\ ~Named(t) /\ go[t].kind = "struct" /\ at = "derive"
  BY <1>1 DEF EnterStruct, Describes, Runs
<1>3. t \in inline
  BY <1>1, <1>2 DEF EnterStruct, Inside, Refuse, locals
<1>4. PICK c \in Calls : c.do = "close" /\ c.type = t
  BY <1>3 DEF Sight, MarkedOnly
<1>5. /\ Top.do = "of" /\ stack \in Seq(Frame) /\ stack # <<>> /\ Top \in Calls
      /\ t \in ValuesIn(Subject)
  BY <1>1, <1>2, OfCall DEF Sight, InSight
<1>6. c \in Below
  <2>1. PICK i \in DOMAIN stack : c = stack[i]
    BY <1>4 DEF Calls
  <2>2. i # Len(stack)
    BY <1>4, <1>5, <2>1 DEF Top
  <2>3. i \in 1 .. Len(stack) - 1
    BY <1>5, <2>1, <2>2
  <2> QED BY <2>1, <2>3 DEF Below
<1>7. <<c, Top>> \in CallPairs /\ <<c, Top>>[1] = c /\ <<c, Top>>[2] = Top
  BY <1>5, <1>6, PairsBefore
<1>8. Within(c, Top)
  BY <1>7 DEF Sight, Nested
<1>9. t \in Held(t)
  BY <1>1, <1>2, <1>4, <1>5, <1>8 DEF Within
<1>10. t \in Inlined(Subject)
  BY <1>2, <1>5 DEF Inlined
<1> QED BY <1>2, <1>9, <1>10 DEF Indescribable, Held

LEMMA FieldRefused ==
    ASSUME ModelSchemasInv, Shape, Sight, NotYet, WriteField, Refuse
    PROVE  Indescribable(Subject)
<1>1. AtField /\ Writes(CurrentField) /\ Runs("fields") /\ at = "derive"
  BY DEF WriteField, AtField, Runs
<1>2. CurrentField.unknown \/ Append(Top.path, CurrentField.property) \in seen
  BY <1>1 DEF WriteField, Refuse, locals
<1>3. PICK p, here, u : p = Top.path /\ here = Here /\ u = nodes[p].of
  OBVIOUS
<1>4. /\ here \in PlacesOf(u) /\ Reaches(Top, here) /\ FieldAt(here) = CurrentField
      /\ StructNode(p) /\ Top \in Calls /\ Top.do = "fields" /\ p \in DOMAIN nodes
  BY <1>1, <1>3, HereIsAPlace, FieldsCall DEF Here, FieldAt, CurrentField, StructNode
<1>5. u \in Structs(Subject) /\ CurrentField \in WrittenFields(u)
  BY <1>3, <1>4 DEF Sight, InSight, WrittenFields
<1>6. CASE CurrentField.unknown
  BY <1>5, <1>6 DEF Indescribable
<1>7. CASE Append(p, CurrentField.property) \in seen
  <2>1. Ahead(p, here)
    BY <1>3, <1>4 DEF Ahead
  <2>2. Collides(u)
    BY <1>3, <1>4, <1>7, <2>1 DEF NotYet
  <2> QED BY <1>5, <2>2 DEF Indescribable
<1> QED BY <1>2, <1>3, <1>6, <1>7

LEMMA RepeatsRefused ==
    ASSUME ModelSchemasInv, Shape, Sight, Tagged, StoreModel, Refuse
    PROVE  Indescribable(Subject)
<1>1. PICK q \in DOMAIN nodes : nodes[q].repeats
  BY DEF StoreModel, Refuse
<1>2. /\ nodes[q].enum /\ FieldTag(q) /\ ~Named(nodes[q].of) /\ go[nodes[q].of].kind # "struct"
  BY <1>1 DEF Tagged, NodesTagged
<1>3. PICK u \in Structs(Subject) : \E f \in WrittenFields(u) : TagFits(q, f)
  BY <1>2, TaggedField
<1>4. PICK f \in WrittenFields(u) : TagFits(q, f)
  BY <1>3
<1>5. /\ Deep(f.type) /\ f.enum # "none" /\ nodes[q].of \in Pointees(f.type)
  BY <1>1, <1>2, <1>4 DEF TagFits, NodeTagged
<1>6. NoEnum(f)
  BY <1>2, <1>5 DEF NoEnum, Deep
<1> QED BY <1>4, <1>6 DEF Indescribable

-----------------------------------------------------------------------------
(* Pointers, and types that do not contain themselves *)

LEMMA UnderInduction ==
    ASSUME NEW t, NEW S, S \subseteq Types, t \in S, \A v \in S : Pointed(v) \subseteq S
    PROVE  Under(t) \subseteq S
BY DEF Under, Reached

LEMMA UnderIsLess ==
    ASSUME input \in Inputs, NEW t \in Types
    PROVE  /\ go[t].kind # "pointer" => Under(t) = {t} /\ Pointees(t) = {t}
           /\ go[t].kind = "pointer" => /\ go[t].elem \in Types
                                        /\ Under(t) \subseteq {t} \cup Under(go[t].elem)
                                        /\ Pointees(t) \subseteq Pointees(go[t].elem)
<1>1. CASE go[t].kind # "pointer"
  <2>1. Pointed(t) = {}
    BY <1>1 DEF Pointed
  <2>2. Under(t) \subseteq {t}
    <3>1. {t} \subseteq Types /\ t \in {t} /\ \A v \in {t} : Pointed(v) \subseteq {t}
      BY <2>1
    <3> QED BY <3>1, UnderInduction
  <2>3. Under(t) = {t}
    BY <2>2, UnderPointers
  <2> QED BY <1>1, <2>3 DEF Pointees, Under
<1>2. CASE go[t].kind = "pointer"
  <2>1. go[t].elem \in Types
    BY <1>2, InputTypes
  <2> DEFINE S == {t} \cup Under(go[t].elem)
  <2>2. S \subseteq Types /\ t \in S
    BY DEF Under, Reached
  <2>3. ASSUME NEW v \in S PROVE Pointed(v) \subseteq S
    <3>1. CASE v = t
      BY <2>1, <3>1, UnderPointers DEF Pointed
    <3>2. CASE v \in Under(go[t].elem)
      BY <3>2, UnderPointers DEF Pointed
    <3> QED BY <3>1, <3>2
  <2>4. Under(t) \subseteq S
    <3> HIDE DEF S
    <3> QED BY <2>2, <2>3, UnderInduction
  <2>5. Pointees(t) \subseteq Pointees(go[t].elem)
    BY <1>2, <2>4 DEF Pointees, Under
  <2> QED BY <1>2, <2>1, <2>4, <2>5
<1> QED BY <1>1, <1>2

LEMMA OnePointee ==
    ASSUME input \in Inputs, NEW t \in Types, NEW u \in Pointees(t), NEW v \in Pointees(t)
    PROVE  u = v
<1> DEFINE S == {w \in Types : u \in Under(w)}
<1>1. /\ u \in Under(t) /\ v \in Under(t) /\ go[u].kind # "pointer" /\ go[v].kind # "pointer"
      /\ u \in Types /\ v \in Types
  BY DEF Pointees, Under, Reached
<1>2. ASSUME NEW w \in S PROVE Pointed(w) \subseteq S
  <2>1. CASE go[w].kind = "pointer"
    <3>1. u \in Under(go[w].elem) /\ go[w].elem \in Types
      BY <1>1, <2>1, UnderIsLess
    <3> QED BY <2>1, <3>1 DEF Pointed
  <2>2. CASE go[w].kind # "pointer"
    BY <2>2 DEF Pointed
  <2> QED BY <2>1, <2>2
<1>3. Under(t) \subseteq S
  <2>1. t \in S /\ S \subseteq Types
    BY <1>1
  <2> HIDE DEF S
  <2> QED BY <1>2, <2>1, UnderInduction
<1>4. u \in Under(v)
  BY <1>1, <1>3
<1> QED BY <1>1, <1>4, UnderIsLess

\* The types that do not contain themselves, however deep: the least set with each type that
\* contains nothing else.
Grounded ==
    {u \in Types : \A S \in SUBSET Types :
        (\A v \in Types : Contains(v) \subseteq S => v \in S) => u \in S}

LEMMA GroundedIsClosed ==
    ASSUME NEW v \in Types, Contains(v) \subseteq Grounded
    PROVE  v \in Grounded
BY DEF Grounded

LEMMA PointeeGrounded ==
    ASSUME input \in Inputs, NEW v \in Types, NEW u \in Pointees(v), u \in Grounded
    PROVE  v \in Grounded
<1> SUFFICES ASSUME v \notin Grounded PROVE FALSE
  OBVIOUS
<1> DEFINE S == Types \ Grounded
<1>1. ASSUME NEW w \in S PROVE Pointed(w) \subseteq S
  <2>1. CASE go[w].kind = "pointer"
    <3>1. Contains(w) = {go[w].elem} /\ go[w].elem \in Types
      BY <2>1, ContainsCases, InputTypes
    <3>2. go[w].elem \notin Grounded
      BY <3>1, GroundedIsClosed
    <3> QED BY <2>1, <3>1, <3>2 DEF Pointed
  <2>2. CASE go[w].kind # "pointer"
    BY <2>2 DEF Pointed
  <2> QED BY <2>1, <2>2
<1>2. Under(v) \subseteq S
  <2>1. v \in S /\ S \subseteq Types
    OBVIOUS
  <2> HIDE DEF S
  <2> QED BY <1>1, <2>1, UnderInduction
<1> QED BY <1>2 DEF Pointees, Under

LEMMA HeldInduction ==
    ASSUME NEW t, NEW S, S \subseteq Types, Contains(t) \subseteq S,
           \A v \in S : Contains(v) \subseteq S
    PROVE  Held(t) \subseteq S
BY DEF Held, Reached

LEMMA GroundedHolds ==
    ASSUME input \in Inputs, NEW u \in Grounded
    PROVE  u \notin Held(u)
<1> DEFINE S == {v \in Types : v \notin Held(v)}
<1>1. ASSUME NEW v \in Types, Contains(v) \subseteq S PROVE v \in S
  <2> SUFFICES ASSUME v \in Held(v) PROVE FALSE
    OBVIOUS
  <2> DEFINE H == Contains(v) \cup UNION {Held(w) : w \in Contains(v)}
  <2>1. \A w \in Contains(v) : w \in Types /\ w \notin Held(w)
    BY <1>1
  <2>2. H \subseteq Types
    BY <2>1, HeldIsClosed
  <2>3. ASSUME NEW x \in H PROVE Contains(x) \subseteq H
    <3>1. CASE x \in Contains(v)
      <4>1. Contains(x) \subseteq Held(x)
        BY <2>1, <3>1, HeldIsClosed
      <4> QED BY <3>1, <4>1
    <3>2. ASSUME NEW w \in Contains(v), x \in Held(w) PROVE Contains(x) \subseteq H
      BY <2>1, <3>2, HeldIsClosed
    <3> QED BY <2>3, <3>1, <3>2
  <2>4. Held(v) \subseteq H
    <3>1. Contains(v) \subseteq H
      OBVIOUS
    <3> HIDE DEF H
    <3> QED BY <2>2, <2>3, <3>1, HeldInduction
  <2>5. CASE v \in Contains(v)
    BY <2>1, <2>5
  <2>6. ASSUME NEW w \in Contains(v), v \in Held(w) PROVE FALSE
    <3>1. w \in Types /\ Contains(v) \subseteq Held(w) /\ \A x \in Held(w) : Contains(x) \subseteq Held(w)
      BY <2>1, <2>6, HeldIsClosed
    <3> QED BY <2>1, <2>6, <3>1
  <2> QED BY <2>4, <2>5, <2>6
<1>2. S \in SUBSET Types
  OBVIOUS
<1>3. u \in S
  <2> HIDE DEF S
  <2> QED BY <1>1, <1>2 DEF Grounded
<1> QED BY <1>3

-----------------------------------------------------------------------------
(* What is written: a node says what its type is, and the root is there. *)

Says(node) ==
    LET u == node.of
    IN  /\ go[u].kind # "pointer"
        /\ node.kind # "ref" =>
              /\ go[u].kind # "none"
              /\ go[u].kind = "list" => go[go[u].elem].kind # "byte"
              /\ go[u].kind = "map" => go[u].textKeys
              /\ go[u].kind = "struct" => node.kind = "object"
              /\ go[u].kind \in {"list", "array", "map"} => node.kind \in {"object", "array"}
Sayable == \A p \in DOMAIN nodes : Says(nodes[p])
RootWritten == go[Subject].kind = "struct" => StructNode(<<>>)
\* The schema has a depth.
Bounded == \E n \in Nat : \A p \in DOMAIN nodes : Len(p) <= n
WrittenSoFar == Sayable /\ RootWritten /\ Bounded

LEMMA KeptNodes ==
    ASSUME WrittenSoFar, UNCHANGED locals, KeepsNodes, DOMAIN nodes' = DOMAIN nodes
    PROVE  WrittenSoFar'
<1>1. input' = input /\ Subject' = Subject /\ go' = go
  BY SameSubject, SameTypes
<1>2. Sayable'
  BY <1>1 DEF WrittenSoFar, Sayable, Says, KeepsNodes
<1>3. RootWritten'
  <2>1. go'[Subject'] = go[Subject]
    BY <1>1
  <2> QED BY <1>1, <2>1, SameNodes DEF WrittenSoFar, RootWritten, StructNode
<1>4. Bounded'
  BY DEF WrittenSoFar, Bounded
<1> QED BY <1>2, <1>3, <1>4 DEF WrittenSoFar

LEMMA AddedNode ==
    ASSUME WrittenSoFar, UNCHANGED locals, DOMAIN nodes \subseteq Seq(Step),
           NEW path \in Seq(Step), NEW node, Adds(path, node), Says(node)
    PROVE  WrittenSoFar'
<1>1. input' = input /\ Subject' = Subject /\ go' = go /\ KeepsNodes
  BY SameSubject, SameTypes, AddsKeeps
<1>2. Sayable'
  BY <1>1 DEF WrittenSoFar, Sayable, Says, Adds
<1>3. RootWritten'
  <2>1. go'[Subject'] = go[Subject]
    BY <1>1
  <2> QED BY <1>1, <2>1, SameNodes DEF WrittenSoFar, RootWritten, StructNode
<1>4. Bounded'
  <2>1. PICK n \in Nat : \A p \in DOMAIN nodes : Len(p) <= n
    BY DEF WrittenSoFar, Bounded
  <2>2. Len(path) \in Nat /\ \A p \in DOMAIN nodes : Len(p) \in Nat
    OBVIOUS
  <2>3. PICK m \in Nat : n <= m /\ Len(path) <= m
    BY <2>2
  <2>4. \A p \in DOMAIN nodes' : Len(p) <= m
    BY <2>1, <2>2, <2>3 DEF Adds
  <2> QED BY <2>4 DEF Bounded
<1> QED BY <1>2, <1>3, <1>4 DEF WrittenSoFar

LEMMA WrittenSoFarStays ==
    ASSUME ModelSchemasInv, Shape, Derives, WrittenSoFar
    PROVE  WrittenSoFar'
<1>1. CASE Refer \/ WriteScalar
  <2>1. PICK node :
              /\ Stacks({}, {}) /\ Adds(Top.path, node)
              /\ node.of = Top.type /\ node.null = FALSE /\ node.repeats = FALSE
              /\ \/ /\ Named(Top.type) /\ node.kind = "ref" /\ node.enum = FALSE
                 \/ /\ ~Named(Top.type) /\ node.kind = SchemaKind(go[Top.type].kind)
                    /\ go[Top.type].kind \in {"time", "any", "string", "integer", "byte", "other"}
                    /\ node.kind \notin {"ref", "array", "object"}
                    /\ node.enum = (Top.enum # "none") /\ ~EnumRefused(node.kind, Top.enum)
              /\ Top.do = "of" /\ go[Top.type].kind # "pointer"
              /\ UNCHANGED <<locals, inline, seen>>
    BY <1>1, LeafView DEF Derives
  <2>2. Says(node)
    BY <2>1 DEF Says
  <2>3. Runs("of")
    BY <1>1 DEF Refer, WriteScalar, Describes
  <2> QED BY <2>1, <2>2, <2>3, OfCall, AddedNode DEF ModelSchemasInv, ModelSchemasTypeOK
<1>2. CASE EnterElements
  <2>1. PICK f, g, node, step :
              /\ Stacks({f, g}, {<<f, g>>}) /\ Adds(Top.path, node)
              /\ f.do = "elements" /\ f.enum = Top.enum
              /\ g.do = "of" /\ g.path = Append(Top.path, step) /\ g.type = go[Top.type].elem
              /\ g.enum = "none" /\ step \in Step
              /\ node.of = Top.type /\ node.null = FALSE /\ node.repeats = FALSE /\ node.enum = FALSE
              /\ node.kind = (IF go[Top.type].kind = "map" THEN "object" ELSE "array")
              /\ Top.do = "of" /\ ~Named(Top.type) /\ go[Top.type].kind \in {"list", "array", "map"}
              /\ go[Top.type].kind = "list" => go[go[Top.type].elem].kind # "byte"
              /\ go[Top.type].kind = "map" => go[Top.type].textKeys
              /\ UNCHANGED <<locals, inline, seen>>
    BY <1>2, ElementsView
  <2>2. Says(node)
    BY <2>1 DEF Says
  <2>3. Runs("of")
    BY <1>2 DEF EnterElements, Describes
  <2> QED BY <2>1, <2>2, <2>3, OfCall, AddedNode DEF ModelSchemasInv, ModelSchemasTypeOK
<1>3. CASE EnterStruct
  <2>1. PICK f, g, node :
              /\ Stacks({f, g}, {<<f, g>>}) /\ Adds(Top.path, node)
              /\ f.do = "close" /\ f.type = Top.type
              /\ g = FieldsFrame(Top.type, 1, Top.path)
              /\ node = Written("object", Top.type)
              /\ Top.do = "of" /\ ~Named(Top.type) /\ go[Top.type].kind = "struct"
              /\ inline' = inline \cup {Top.type}
              /\ UNCHANGED <<locals, seen>>
    BY <1>3, StructView DEF Derives
  <2>2. Says(node)
    BY <2>1 DEF Says, Written
  <2>3. Runs("of")
    BY <1>3 DEF EnterStruct, Describes
  <2> QED BY <2>1, <2>2, <2>3, OfCall, AddedNode DEF ModelSchemasInv, ModelSchemasTypeOK
<1>4. CASE EndElements \/ CloseStruct \/ Dereference \/ EndFields \/ SkipField \/ PromoteFields \/ WriteField
  <2>1. ASSUME EndElements \/ CloseStruct PROVE nodes' = nodes
    BY <2>1, EndElementsView, CloseView DEF Derives
  <2>2. ASSUME Dereference PROVE nodes' = nodes
    BY <2>2 DEF Dereference
  <2>3. ASSUME EndFields \/ SkipField \/ PromoteFields PROVE nodes' = nodes
    BY <2>3 DEF EndFields, SkipField, PromoteFields
  <2>4. ASSUME WriteField PROVE nodes' = nodes
    BY <2>4, WriteFieldView DEF Derives
  <2>5. nodes' = nodes
    BY <1>4, <2>1, <2>2, <2>3, <2>4
  <2> QED BY <2>5, DerivesView, KeptNodes
<1>5. CASE MakeNullable
  BY <1>5, MakeNullableView, DerivesView, KeptNodes
<1> QED BY <1>1, <1>2, <1>3, <1>4, <1>5 DEF Derives

LEMMA BeginWrittenSoFar ==
    ASSUME ModelSchemasInv, BeginModel, ~Refuse
    PROVE  WrittenSoFar'
<1> SUFFICES ASSUME NEW t, t = models[index].type PROVE WrittenSoFar'
  OBVIOUS
<1>1. UNCHANGED <<input, index, out>>
  BY DEF BeginModel
<1>2. go' = go /\ Subject' = t
  BY <1>1, SameTypes DEF Subject
<1>3. CASE go[t].kind = "struct" /\ nodes' = [p \in {<<>>} |-> Written("object", t)]
  <2>1. DOMAIN nodes' = {<<>>} /\ nodes'[<<>>].of = t /\ nodes'[<<>>].kind = "object"
    BY <1>3 DEF Written
  <2>2. Sayable'
    BY <1>2, <1>3, <2>1 DEF Sayable, Says
  <2>3. RootWritten'
    BY <1>2, <1>3, <2>1 DEF RootWritten, StructNode
  <2>4. Bounded'
    <3>1. \A p \in DOMAIN nodes' : Len(p) <= 0
      BY <2>1
    <3> QED BY <3>1 DEF Bounded
  <2> QED BY <2>2, <2>3, <2>4 DEF WrittenSoFar
<1>4. CASE go[t].kind # "struct" /\ nodes' = Empty
  <2>1. DOMAIN nodes' = {}
    BY <1>4 DEF Empty
  <2>2. 0 \in Nat /\ \A p \in DOMAIN nodes' : Len(p) <= 0
    BY <2>1
  <2> QED BY <1>2, <1>4, <2>1, <2>2 DEF WrittenSoFar, Sayable, RootWritten, Bounded
<1> QED BY <1>3, <1>4 DEF BeginModel

-----------------------------------------------------------------------------
(* No field is forgotten: of two that write one property one is ahead until *)
(* the other is refused, and an embedding without an end does not end.      *)

\* A field of a struct, written or embedded.
Declared(s, i) == s \in Types /\ i \in DOMAIN go[s].fields

LEMMA StartReaches ==
    ASSUME input \in Inputs, NEW w \in Types, NEW path, NEW s \in Parts(w),
           NEW i \in DOMAIN go[s].fields
    PROVE  Reaches(FieldsFrame(w, 1, path), <<s, i>>)
<1>1. PICK c : c = FieldsFrame(w, 1, path)
  OBVIOUS
<1>2. c.type = w /\ c.next = 1
  BY <1>1 DEF FieldsFrame
<1>3. CASE s = w
  <2>1. 1 <= i
    BY <1>3, FieldsIn
  <2> QED BY <1>1, <1>2, <1>3, <2>1 DEF Reaches
<1>4. ASSUME NEW m \in DOMAIN go[w].fields, Promotes(go[w].fields[m]), s \in Parts(Inner(go[w].fields[m]))
      PROVE  Reaches(c, <<s, i>>)
  <2>1. 1 <= m
    BY FieldsIn
  <2> QED BY <1>2, <1>4, <2>1 DEF Reaches
<1> QED BY <1>1, <1>3, <1>4, PartByEmbedding

\* What is before a call is before what is left of it, or it is the field in hand.
LEMMA ReachedNext ==
    ASSUME ModelSchemasInv, Shape, Runs("fields"), NEW s, NEW i, Declared(s, i),
           Reaches(Top, <<s, i>>), NEW h, h = GoOn
    PROVE  /\ AtField
           /\ \/ Reaches(h, <<s, i>>)
              \/ s = Top.type /\ i = Top.next
              \/ Promotes(CurrentField) /\ s \in Parts(Inner(CurrentField))
<1>1. /\ Top.type \in Types /\ Top.next \in Nat \ {0} /\ Len(go[Top.type].fields) \in Nat
      /\ DOMAIN go[Top.type].fields = 1 .. Len(go[Top.type].fields) /\ input \in Inputs
  BY FieldsCall
<1>2. h.type = Top.type /\ h.next = Top.next + 1
  BY DEF GoOn, FieldsFrame
<1>3. i \in Nat
  BY <1>1, FieldsIn DEF Declared
<1>4. CASE Top.type = s /\ Top.next <= i
  <2>1. AtField
    BY <1>1, <1>3, <1>4 DEF AtField, Declared
  <2>2. i = Top.next \/ h.next <= i
    BY <1>1, <1>2, <1>3, <1>4
  <2> QED BY <1>2, <1>4, <2>1, <2>2 DEF Reaches
<1>5. ASSUME NEW m \in DOMAIN go[Top.type].fields, Top.next <= m, Promotes(go[Top.type].fields[m]),
             s \in Parts(Inner(go[Top.type].fields[m]))
      PROVE  /\ AtField
             /\ \/ Reaches(h, <<s, i>>)
                \/ Promotes(CurrentField) /\ s \in Parts(Inner(CurrentField))
  <2>1. AtField
    BY <1>1, <1>5 DEF AtField
  <2>2. CASE m = Top.next
    BY <1>5, <2>1, <2>2 DEF CurrentField
  <2>3. CASE m # Top.next
    <3>1. h.next <= m
      BY <1>1, <1>2, <1>5, <2>3
    <3> QED BY <1>2, <1>5, <2>1, <3>1 DEF Reaches
  <2> QED BY <2>2, <2>3
<1> QED BY <1>4, <1>5 DEF Reaches

LEMMA EmbeddedDeclared ==
    ASSUME NEW t, NEW e \in EmbeddedIn(t)
    PROVE  \E s \in Parts(t), i \in Nat \cup DOMAIN go[e[1]].fields :
              /\ e = <<s, i>> /\ Declared(s, i) /\ Promotes(go[s].fields[i])
              /\ e[1] = s /\ e[2] = i /\ FieldAt(e) = go[s].fields[i]
<1>1. PICK s \in Parts(t) : \E i \in DOMAIN go[s].fields : Promotes(go[s].fields[i]) /\ e = <<s, i>>
  BY EmbeddedPlaces
<1>2. PICK i \in DOMAIN go[s].fields : Promotes(go[s].fields[i]) /\ e = <<s, i>>
  BY <1>1
<1>3. s \in Types /\ e[1] = s /\ e[2] = i
  BY <1>2, PartsAreTypes
<1> QED BY <1>2, <1>3 DEF Declared, FieldAt

\* An embedded struct is before a call until its fields are.
LEMMA EmbeddedStill ==
    ASSUME ModelSchemasInv, Shape, Derives, NEW p \in DOMAIN nodes, StructNode(p),
           NEW e \in EmbeddedIn(nodes[p].of), Ahead(p, e)
    PROVE  Ahead(p, e)' \/ (PromoteFields /\ p = Top.path /\ e = Here)
<1>1. input' = input
  BY DerivesView
<1>2. CASE Top.do # "fields" \/ Top.path # p \/ ~Reaches(Top, e)
  <2>1. PICK new, order : Stacks(new, order)
    BY DerivesView
  <2> QED BY <1>1, <1>2, <2>1, AheadElsewhere DEF Stacks
<1>3. CASE Top.do = "fields" /\ Top.path = p /\ Reaches(Top, e)
  <2>0. PICK h : h = GoOn
    OBVIOUS
  <2>1. PICK s \in Parts(nodes[p].of), i \in Nat \cup DOMAIN go[e[1]].fields :
              /\ e = <<s, i>> /\ Declared(s, i) /\ Promotes(go[s].fields[i])
              /\ e[1] = s /\ e[2] = i /\ FieldAt(e) = go[s].fields[i]
    BY EmbeddedDeclared
  <2>2. EndFields \/ SkipField \/ PromoteFields \/ WriteField
    BY <1>3, DerivesView
  <2>3. Runs("fields")
    BY <2>2, EndFieldsView, SkipFieldView, PromoteFieldsView, WriteFieldView DEF Derives
  <2>4. /\ AtField
        /\ \/ Reaches(h, e)
           \/ s = Top.type /\ i = Top.next
           \/ Promotes(CurrentField) /\ s \in Parts(Inner(CurrentField))
    BY <1>3, <2>0, <2>1, <2>3, ReachedNext
  <2>5. h.do = "fields" /\ h.path = p
    BY <1>3, <2>0 DEF GoOn, FieldsFrame
  <2>6. ~EndFields
    BY <2>3, <2>4, FieldsCall DEF EndFields, AtField
  <2>7. CASE SkipField \/ WriteField
    <3>1. PICK new, order : Stacks(new, order) /\ h \in new
      <4>1. CASE SkipField
        BY <2>0, <4>1, SkipFieldView
      <4>2. CASE WriteField
        <5>1. PICK f : Stacks({h, f}, {<<h, f>>})
          BY <2>0, <4>2, WriteFieldView DEF Derives
        <5> QED BY <5>1
      <4> QED BY <2>7, <4>1, <4>2
    <3>2. ~Promotes(CurrentField)
      BY <2>7 DEF SkipField, WriteField, Writes
    <3>3. Reaches(h, e)
      BY <2>1, <2>4, <3>2 DEF CurrentField
    <3> QED BY <1>1, <2>5, <3>1, <3>3, AheadElsewhere DEF Stacks
  <2>8. CASE PromoteFields
    <3>1. PICK f : f = FieldsFrame(Inner(CurrentField), 1, Top.path)
      OBVIOUS
    <3>2. Stacks({h, f}, {<<h, f>>}) /\ Inner(CurrentField) \in Types
      BY <2>0, <2>8, <3>1, PromoteFieldsView
    <3>3. f.do = "fields" /\ f.path = p
      BY <1>3, <3>1 DEF FieldsFrame
    <3>4. ASSUME s \in Parts(Inner(CurrentField)) PROVE Reaches(f, e)
      BY <2>1, <2>3, <3>1, <3>2, <3>4, StartReaches, FieldsCall DEF Declared
    <3>5. CASE s = Top.type /\ i = Top.next
      BY <1>3, <2>1, <2>8, <3>5 DEF Here
    <3>6. CASE Reaches(h, e) \/ s \in Parts(Inner(CurrentField))
      BY <1>1, <2>5, <3>2, <3>3, <3>4, <3>6, AheadElsewhere DEF Stacks
    <3> QED BY <2>4, <3>5, <3>6
  <2> QED BY <2>2, <2>6, <2>7, <2>8
<1> QED BY <1>2, <1>3

Once ==
    \A p \in DOMAIN nodes : StructNode(p) => \A a, b \in PlacesOf(nodes[p].of) :
        a # b /\ FieldAt(a).property = FieldAt(b).property => Ahead(p, a) \/ Ahead(p, b)

LEMMA OnceStays ==
    ASSUME ModelSchemasInv, Shape, Derives, Once,
           \A p \in DOMAIN nodes' : p \notin DOMAIN nodes /\ StructNode(p)' =>
              \A place \in PlacesOf(nodes'[p].of) : Ahead(p, place)'
    PROVE  Once'
<1>1. input' = input /\ KeepsNodes
  BY DerivesView
<1>2. /\ \A t : PlacesOf(t)' = PlacesOf(t)
      /\ \A place : FieldAt(place)' = FieldAt(place)
  BY <1>1, SameTypes
<1> SUFFICES ASSUME NEW p \in DOMAIN nodes', StructNode(p)', NEW u, u = nodes'[p].of,
                    NEW a \in PlacesOf(u), NEW b \in PlacesOf(u), a # b,
                    FieldAt(a).property = FieldAt(b).property
             PROVE  Ahead(p, a)' \/ Ahead(p, b)'
  BY <1>2 DEF Once
<1>3. CASE p \notin DOMAIN nodes
  BY <1>3
<1>4. CASE p \in DOMAIN nodes
  <2>1. u = nodes[p].of /\ StructNode(p)
    BY <1>1, <1>4, SameNodes DEF KeepsNodes
  <2>2. ASSUME NEW c \in PlacesOf(u), NEW d \in PlacesOf(u), c # d,
               FieldAt(c).property = FieldAt(d).property, Ahead(p, c)
        PROVE  Ahead(p, c)' \/ Ahead(p, d)'
    <3>1. CASE Ahead(p, d)
      BY <1>4, <2>1, <2>2, <3>1, StillAhead
    <3>2. CASE ~Ahead(p, d)
      <4>1. Append(p, FieldAt(c).property) \in seen
        BY <1>4, <2>1, <2>2, <3>2 DEF Shape, FieldsOwed, Settled
      <4>2. ASSUME WriteField, p = Top.path, c = Here PROVE FALSE
        <5>1. FieldAt(c) = CurrentField
          BY <4>2 DEF Here, FieldAt, CurrentField
        <5> QED BY <4>1, <4>2, <5>1, WriteFieldView DEF Derives
      <4> QED BY <1>4, <2>1, <2>2, <4>2, StillAhead
    <3> QED BY <3>1, <3>2
  <2>3. Ahead(p, a) \/ Ahead(p, b)
    BY <1>4, <2>1 DEF Once
  <2> QED BY <2>2, <2>3
<1> QED BY <1>3, <1>4

\* An object of a struct's that was not there has every field ahead.
LEMMA NewStruct ==
    ASSUME ModelSchemasInv, Shape, Derives, NEW p \in DOMAIN nodes', p \notin DOMAIN nodes,
           StructNode(p)'
    PROVE  \E t \in Types, c \in Calls' : nodes'[p].of = t /\ c = FieldsFrame(t, 1, p)
<1>1. input' = input /\ go' = go
  BY DerivesView, SameTypes
<1>2. nodes'[p].kind = "object" /\ go[nodes'[p].of].kind = "struct"
  BY <1>1 DEF StructNode
<1>3. CASE Refer \/ WriteScalar
  <2>1. PICK node :
              /\ Stacks({}, {}) /\ Adds(Top.path, node)
              /\ node.of = Top.type /\ node.null = FALSE /\ node.repeats = FALSE
              /\ \/ /\ Named(Top.type) /\ node.kind = "ref" /\ node.enum = FALSE
                 \/ /\ ~Named(Top.type) /\ node.kind = SchemaKind(go[Top.type].kind)
                    /\ go[Top.type].kind \in {"time", "any", "string", "integer", "byte", "other"}
                    /\ node.kind \notin {"ref", "array", "object"}
                    /\ node.enum = (Top.enum # "none") /\ ~EnumRefused(node.kind, Top.enum)
              /\ Top.do = "of" /\ go[Top.type].kind # "pointer"
              /\ UNCHANGED <<locals, inline, seen>>
    BY <1>3, LeafView DEF Derives
  <2> QED BY <1>2, <2>1 DEF Adds
<1>4. CASE EnterElements
  <2>1. PICK f, g, node, step :
              /\ Stacks({f, g}, {<<f, g>>}) /\ Adds(Top.path, node)
              /\ f.do = "elements" /\ f.enum = Top.enum
              /\ g.do = "of" /\ g.path = Append(Top.path, step) /\ g.type = go[Top.type].elem
              /\ g.enum = "none" /\ step \in Step
              /\ node.of = Top.type /\ node.null = FALSE /\ node.repeats = FALSE /\ node.enum = FALSE
              /\ node.kind = (IF go[Top.type].kind = "map" THEN "object" ELSE "array")
              /\ Top.do = "of" /\ ~Named(Top.type) /\ go[Top.type].kind \in {"list", "array", "map"}
              /\ go[Top.type].kind = "list" => go[go[Top.type].elem].kind # "byte"
              /\ go[Top.type].kind = "map" => go[Top.type].textKeys
              /\ UNCHANGED <<locals, inline, seen>>
    BY <1>4, ElementsView
  <2> QED BY <1>2, <2>1 DEF Adds
<1>5. CASE EnterStruct
  <2>1. PICK f, g, node :
              /\ Stacks({f, g}, {<<f, g>>}) /\ Adds(Top.path, node)
              /\ f.do = "close" /\ f.type = Top.type
              /\ g = FieldsFrame(Top.type, 1, Top.path)
              /\ node = Written("object", Top.type)
              /\ Top.do = "of" /\ ~Named(Top.type) /\ go[Top.type].kind = "struct"
              /\ inline' = inline \cup {Top.type}
              /\ UNCHANGED <<locals, seen>>
    BY <1>5, StructView DEF Derives
  <2>2. p = Top.path /\ nodes'[p].of = Top.type
    BY <2>1 DEF Adds, Written
  <2>3. g \in Calls'
    BY <2>1 DEF Stacks, Goes
  <2>4. Runs("of")
    BY <1>5 DEF EnterStruct, Describes
  <2> QED BY <2>1, <2>2, <2>3, <2>4, OfCall
<1>6. CASE \/ EndElements \/ CloseStruct \/ Dereference \/ EndFields \/ SkipField \/ PromoteFields
           \/ WriteField \/ MakeNullable
  <2>1. ASSUME EndElements \/ CloseStruct PROVE nodes' = nodes
    BY <2>1, EndElementsView, CloseView DEF Derives
  <2>2. ASSUME Dereference PROVE nodes' = nodes
    BY <2>2 DEF Dereference
  <2>3. ASSUME EndFields \/ SkipField \/ PromoteFields PROVE nodes' = nodes
    BY <2>3 DEF EndFields, SkipField, PromoteFields
  <2>4. ASSUME WriteField PROVE nodes' = nodes
    BY <2>4, WriteFieldView DEF Derives
  <2>5. ASSUME MakeNullable PROVE DOMAIN nodes' = DOMAIN nodes
    BY <2>5, MakeNullableView
  <2> QED BY <1>6, <2>1, <2>2, <2>3, <2>4, <2>5
<1> QED BY <1>3, <1>4, <1>5, <1>6 DEF Derives

LEMMA NewStructAhead ==
    ASSUME ModelSchemasInv, Shape, Derives
    PROVE  \A p \in DOMAIN nodes' : p \notin DOMAIN nodes /\ StructNode(p)' =>
              \A place \in PlacesOf(nodes'[p].of) : Ahead(p, place)'
<1> SUFFICES ASSUME NEW p \in DOMAIN nodes', p \notin DOMAIN nodes, StructNode(p)',
                    NEW place \in PlacesOf(nodes'[p].of)
             PROVE  Ahead(p, place)'
  OBVIOUS
<1>1. PICK t \in Types, c \in Calls' : nodes'[p].of = t /\ c = FieldsFrame(t, 1, p)
  BY NewStruct
<1>2. input' = input /\ input \in Inputs
  BY DerivesView DEF ModelSchemasInv, ModelSchemasTypeOK
<1>3. Reaches(c, place) /\ c.do = "fields" /\ c.path = p
  BY <1>1, <1>2, AllAhead DEF FieldsFrame
<1> QED BY <1>2, <1>3, SameTypes DEF Ahead

\* A call has an embedded field before it that the struct is part of.
Embeds(c, s) ==
    \E m \in DOMAIN go[c.type].fields :
        c.next <= m /\ Promotes(go[c.type].fields[m]) /\ s \in Parts(Inner(go[c.type].fields[m]))
NeverEnds ==
    \A p \in DOMAIN nodes : StructNode(p) => \A s \in Parts(nodes[p].of) : Endless(s) =>
        \E c \in Calls : c.do = "fields" /\ c.path = p /\ Embeds(c, s)

LEMMA EndlessEmbeds ==
    ASSUME input \in Inputs, NEW w \in Types, NEW s \in Parts(w), Endless(s), NEW path
    PROVE  Embeds(FieldsFrame(w, 1, path), s)
<1>1. PICK c : c = FieldsFrame(w, 1, path)
  OBVIOUS
<1>2. c.type = w /\ c.next = 1
  BY <1>1 DEF FieldsFrame
<1>3. \E m \in DOMAIN go[w].fields : Promotes(go[w].fields[m]) /\ s \in Parts(Inner(go[w].fields[m]))
  <2>1. CASE s = w
    <3>1. PICK v \in Promoted(w) : w \in Parts(v)
      BY <2>1, EndlessByEmbedding
    <3> QED BY <2>1, <3>1, PromotedTypes
  <2> QED BY <2>1, PartByEmbedding
<1>4. \A m \in DOMAIN go[w].fields : 1 <= m
  BY FieldsIn
<1> QED BY <1>1, <1>2, <1>3, <1>4 DEF Embeds

LEMMA NeverEndsStays ==
    ASSUME ModelSchemasInv, Shape, Derives, NeverEnds
    PROVE  NeverEnds'
<1>1. input' = input /\ KeepsNodes /\ input \in Inputs
  BY DerivesView DEF ModelSchemasInv, ModelSchemasTypeOK
<1>2. /\ \A t : Parts(t)' = Parts(t) /\ (Endless(t)' <=> Endless(t))
      /\ \A c, s : Embeds(c, s)' <=> Embeds(c, s)
  BY <1>1, SameTypes, SameSight DEF Embeds
<1> SUFFICES ASSUME NEW p \in DOMAIN nodes', StructNode(p)', NEW u, u = nodes'[p].of,
                    NEW s \in Parts(u), Endless(s)
             PROVE  \E c \in Calls' : c.do = "fields" /\ c.path = p /\ Embeds(c, s)
  BY <1>2 DEF NeverEnds
<1>3. CASE p \notin DOMAIN nodes
  <2>1. PICK t \in Types, c \in Calls' : nodes'[p].of = t /\ c = FieldsFrame(t, 1, p)
    BY <1>3, NewStruct
  <2>2. Embeds(c, s) /\ c.do = "fields" /\ c.path = p
    BY <1>1, <2>1, EndlessEmbeds DEF FieldsFrame
  <2> QED BY <2>2
<1>4. CASE p \in DOMAIN nodes
  <2>1. u = nodes[p].of /\ StructNode(p)
    BY <1>1, <1>4, SameNodes DEF KeepsNodes
  <2>2. PICK c \in Calls : c.do = "fields" /\ c.path = p /\ Embeds(c, s)
    BY <1>4, <2>1 DEF NeverEnds
  <2>3. CASE c # Top
    <3>1. PICK new, order : Stacks(new, order)
      BY DerivesView
    <3>2. c \in Calls'
      BY <2>3, <3>1 DEF Stacks, Goes
    <3> QED BY <2>2, <3>2
  <2>4. CASE c = Top
    <3>0. PICK h : h = GoOn
      OBVIOUS
    <3>1. EndFields \/ SkipField \/ PromoteFields \/ WriteField
      BY <2>2, <2>4, DerivesView
    <3>2. Runs("fields")
      BY <3>1, EndFieldsView, SkipFieldView, PromoteFieldsView, WriteFieldView DEF Derives
    <3>3. /\ h.type = Top.type /\ h.next = Top.next + 1 /\ Top.next \in Nat
          /\ h.do = "fields" /\ h.path = p
          /\ Len(go[Top.type].fields) \in Nat /\ DOMAIN go[Top.type].fields = 1 .. Len(go[Top.type].fields)
      BY <2>2, <2>4, <3>0, <3>2, FieldsCall DEF GoOn, FieldsFrame
    <3>4. PICK m \in DOMAIN go[Top.type].fields :
             Top.next <= m /\ Promotes(go[Top.type].fields[m]) /\ s \in Parts(Inner(go[Top.type].fields[m]))
      BY <2>2, <2>4 DEF Embeds
    <3>5. ~EndFields
      BY <3>3, <3>4 DEF EndFields
    <3>6. ASSUME m # Top.next PROVE Embeds(h, s)
      <4>1. h.next <= m
        BY <3>3, <3>4, <3>6
      <4> QED BY <3>3, <3>4, <4>1 DEF Embeds
    <3>7. CASE SkipField \/ WriteField
      <4>1. h \in Calls'
        <5>1. CASE SkipField
          BY <3>0, <5>1, SkipFieldView DEF Stacks, Goes
        <5>2. CASE WriteField
          <6>1. PICK f : Stacks({h, f}, {<<h, f>>})
            BY <3>0, <5>2, WriteFieldView DEF Derives
          <6> QED BY <6>1 DEF Stacks, Goes
        <5> QED BY <3>7, <5>1, <5>2
      <4>2. m # Top.next
        BY <3>4, <3>7 DEF SkipField, WriteField, Writes, CurrentField
      <4> QED BY <3>3, <3>6, <4>1, <4>2
    <3>8. CASE PromoteFields
      <4>1. PICK f : f = FieldsFrame(Inner(CurrentField), 1, Top.path)
        OBVIOUS
      <4>2. Stacks({h, f}, {<<h, f>>}) /\ Inner(CurrentField) \in Types
        BY <3>0, <3>8, <4>1, PromoteFieldsView
      <4>3. h \in Calls' /\ f \in Calls'
        BY <4>2 DEF Stacks, Goes
      <4>4. CASE m = Top.next
        <5>1. Embeds(f, s) /\ f.do = "fields" /\ f.path = p
          BY <1>1, <2>2, <2>4, <3>4, <4>1, <4>2, <4>4, EndlessEmbeds DEF FieldsFrame, CurrentField
        <5> QED BY <4>3, <5>1
      <4>5. CASE m # Top.next
        BY <3>3, <3>6, <4>3, <4>5
      <4> QED BY <4>4, <4>5
    <3> QED BY <3>1, <3>5, <3>7, <3>8
  <2> QED BY <2>3, <2>4
<1> QED BY <1>3, <1>4

-----------------------------------------------------------------------------
(* A struct that is embedded twice: its fields are reached twice until one  *)
(* of them is refused.                                                      *)

At(c, p) == c.do = "fields" /\ c.path = p
Way(c, m, place) ==
    /\ c.next <= m
    /\ \/ place = <<c.type, m>>
       \/ Promotes(go[c.type].fields[m]) /\ place[1] \in Parts(Inner(go[c.type].fields[m]))
TwoWays(p, place) ==
    \/ \E c \in Calls : At(c, p) /\ \E m, k \in DOMAIN go[c.type].fields :
          m # k /\ Way(c, m, place) /\ Way(c, k, place)
    \/ \E e \in CallPairs : At(e[1], p) /\ At(e[2], p) /\ Reaches(e[1], place) /\ Reaches(e[2], place)
NoEndless(u) == \A s \in Parts(u) : ~Endless(s)
TakenAgain(p, place) == Ahead(p, place) /\ Append(p, FieldAt(place).property) \in seen

\* The steps of a call of fields that is not at its end, with the field in hand.
LEMMA FieldSteps ==
    ASSUME ModelSchemasInv, Shape, Derives, Top.do = "fields", AtField, NEW h, h = GoOn
    PROVE  /\ h.do = "fields" /\ h.path = Top.path /\ h.type = Top.type
           /\ h.next = Top.next + 1 /\ Runs("fields") /\ input \in Inputs /\ input' = input
           /\ \/ SkipField /\ Stacks({h}, {}) /\ ~Promotes(CurrentField) /\ ~Writes(CurrentField)
              \/ /\ WriteField /\ ~Promotes(CurrentField)
                 /\ \E f : Stacks({h, f}, {<<h, f>>})
                 /\ seen' = seen \cup {Append(Top.path, CurrentField.property)}
                 /\ Append(Top.path, CurrentField.property) \notin seen
              \/ /\ PromoteFields /\ Promotes(CurrentField) /\ ~Writes(CurrentField)
                 /\ Inner(CurrentField) \in Types
                 /\ \E f : /\ Stacks({h, f}, {<<h, f>>})
                           /\ f = FieldsFrame(Inner(CurrentField), 1, Top.path)
<1>1. EndFields \/ SkipField \/ PromoteFields \/ WriteField
  BY DerivesView
<1>2. Runs("fields")
  BY DEF AtField
<1>3. ~EndFields
  BY <1>2, FieldsCall DEF EndFields, AtField
<1>4. /\ h.do = "fields" /\ h.path = Top.path /\ h.type = Top.type
      /\ h.next = Top.next + 1 /\ Runs("fields") /\ input \in Inputs /\ input' = input
  BY <1>2, FieldsCall, DerivesView DEF GoOn, FieldsFrame
<1>5. ASSUME SkipField
      PROVE  Stacks({h}, {}) /\ ~Promotes(CurrentField) /\ ~Writes(CurrentField)
  BY <1>5, SkipFieldView
<1>6. ASSUME WriteField
      PROVE  /\ ~Promotes(CurrentField)
             /\ \E f : Stacks({h, f}, {<<h, f>>})
             /\ seen' = seen \cup {Append(Top.path, CurrentField.property)}
             /\ Append(Top.path, CurrentField.property) \notin seen
  <2>1. PICK f, path :
              /\ Stacks({GoOn, f}, {<<GoOn, f>>})
              /\ path = Append(Top.path, CurrentField.property)
              /\ path \notin seen /\ seen' = seen \cup {path}
    BY <1>6, WriteFieldView DEF Derives
  <2>2. ~Promotes(CurrentField)
    BY <1>6 DEF WriteField, Writes
  <2> QED BY <2>1, <2>2
<1>7. ASSUME PromoteFields
      PROVE  /\ Promotes(CurrentField) /\ ~Writes(CurrentField)
             /\ Inner(CurrentField) \in Types
             /\ \E f : /\ Stacks({h, f}, {<<h, f>>})
                       /\ f = FieldsFrame(Inner(CurrentField), 1, Top.path)
  BY <1>7, PromoteFieldsView DEF Writes
<1> QED BY <1>1, <1>3, <1>4, <1>5, <1>6, <1>7

\* Of two ways through one call the first may be taken: then the other is left.
LEMMA WayTaken ==
    ASSUME ModelSchemasInv, Shape, Derives, NEW p \in DOMAIN nodes, StructNode(p),
           NEW u, u = nodes[p].of, NoEndless(u), NEW place \in PlacesOf(u), At(Top, p),
           NEW m \in DOMAIN go[Top.type].fields, NEW k \in DOMAIN go[Top.type].fields, m # k,
           Way(Top, m, place), Way(Top, k, place), m = Top.next
    PROVE  TwoWays(p, place)'
<1>0. PICK h : h = GoOn
  OBVIOUS
<1>1. Top.do = "fields" /\ Top.path = p
  BY DEF At
<1>2. Runs("fields")
  <2>1. EndFields \/ SkipField \/ PromoteFields \/ WriteField
    BY <1>1, DerivesView
  <2> QED BY <2>1, EndFieldsView, SkipFieldView, PromoteFieldsView, WriteFieldView DEF Derives
<1>3. /\ Top.type \in Types /\ Top.type \in Parts(u) /\ Top.next \in Nat
      /\ Len(go[Top.type].fields) \in Nat /\ DOMAIN go[Top.type].fields = 1 .. Len(go[Top.type].fields)
      /\ input \in Inputs
  BY <1>1, <1>2, FieldsCall
<1>4. AtField /\ k \in Nat /\ Top.next + 1 <= k
  BY <1>2, <1>3 DEF AtField, Way
<1>5. /\ h.do = "fields" /\ h.path = Top.path /\ h.type = Top.type /\ h.next = Top.next + 1
      /\ \/ ~Promotes(CurrentField) /\ (~Writes(CurrentField) \/ WriteField)
         \/ /\ PromoteFields /\ Promotes(CurrentField) /\ ~Writes(CurrentField)
            /\ Inner(CurrentField) \in Types
            /\ \E f : /\ Stacks({h, f}, {<<h, f>>})
                      /\ f = FieldsFrame(Inner(CurrentField), 1, Top.path)
      /\ input' = input
  BY <1>0, <1>1, <1>4, FieldSteps
<1>6. /\ place[1] \in Parts(u) /\ place[1] \in Types /\ place = <<place[1], place[2]>>
      /\ place[2] \in DOMAIN go[place[1]].fields /\ Writes(FieldAt(place))
  BY <1>3, PlaceIsOwn
<1>7. ASSUME place = <<Top.type, m>> PROVE FALSE
  <2>1. place[1] = Top.type /\ place[2] = m
    BY <1>7
  <2>2. place # <<Top.type, k>>
    BY <2>1
  <2>3. Promotes(go[Top.type].fields[k]) /\ Top.type \in Parts(Inner(go[Top.type].fields[k]))
    BY <2>1, <2>2 DEF Way
  <2>4. Inner(go[Top.type].fields[k]) \in Promoted(Top.type)
    BY <1>3, <2>3, PromotedTypes
  <2>5. Endless(Top.type)
    BY <1>3, <2>3, <2>4, EndlessByEmbedding
  <2> QED BY <1>3, <2>5 DEF NoEndless
<1>8. Promotes(CurrentField) /\ place[1] \in Parts(Inner(CurrentField))
  BY <1>7 DEF Way, CurrentField
<1>9. PICK f : /\ Stacks({h, f}, {<<h, f>>})
               /\ f = FieldsFrame(Inner(CurrentField), 1, Top.path)
               /\ Inner(CurrentField) \in Types
  BY <1>5, <1>8
<1>10. Reaches(f, place)
  BY <1>3, <1>6, <1>8, <1>9, StartReaches
<1>11. Reaches(h, place)
  <2>1. CASE place = <<Top.type, k>>
    <3>1. place[1] = Top.type /\ place[2] = k
      BY <2>1
    <3> QED BY <1>4, <1>5, <3>1 DEF Reaches
  <2>2. CASE Promotes(go[Top.type].fields[k]) /\ place[1] \in Parts(Inner(go[Top.type].fields[k]))
    BY <1>4, <1>5, <2>2 DEF Reaches
  <2> QED BY <2>1, <2>2 DEF Way
<1>12. /\ <<h, f>> \in CallPairs' /\ <<h, f>>[1] = h /\ <<h, f>>[2] = f
  BY <1>9 DEF Stacks
<1>13. At(h, p) /\ At(f, p) /\ (Reaches(h, place)' <=> Reaches(h, place))
                /\ (Reaches(f, place)' <=> Reaches(f, place))
  BY <1>1, <1>5, <1>9, SameTypes DEF At, FieldsFrame
<1> QED BY <1>10, <1>11, <1>12, <1>13 DEF TwoWays, At

LEMMA TwoWaysInOne ==
    ASSUME ModelSchemasInv, Shape, Derives, NEW p \in DOMAIN nodes, StructNode(p),
           NEW u, u = nodes[p].of, NoEndless(u), NEW place \in PlacesOf(u),
           NEW c \in Calls, At(c, p), NEW m \in DOMAIN go[c.type].fields,
           NEW k \in DOMAIN go[c.type].fields, m # k, Way(c, m, place), Way(c, k, place)
    PROVE  TwoWays(p, place)'
<1>0. PICK h : h = GoOn
  OBVIOUS
<1>1. input' = input
  BY DerivesView
<1>2. ASSUME NEW d \in Calls', At(d, p), d.type = c.type, d.next <= m, d.next <= k
      PROVE  TwoWays(p, place)'
  <2>1. m \in DOMAIN go'[d.type].fields /\ k \in DOMAIN go'[d.type].fields /\ go' = go
    BY <1>1, <1>2, SameTypes
  <2>2. Way(d, m, place)' /\ Way(d, k, place)'
    BY <1>1, <1>2, SameTypes DEF Way
  <2>3. At(d, p)'
    BY <1>2 DEF At
  <2> QED BY <1>2, <2>1, <2>2, <2>3 DEF TwoWays
<1>3. CASE c # Top
  <2>1. PICK new, order : Stacks(new, order)
    BY DerivesView
  <2>2. c \in Calls'
    BY <1>3, <2>1 DEF Stacks, Goes
  <2> QED BY <1>2, <2>2 DEF Way
<1>4. CASE c = Top /\ (m = Top.next \/ k = Top.next)
  BY <1>4, WayTaken
<1>5. CASE c = Top /\ m # Top.next /\ k # Top.next
  <2>1. Top.do = "fields" /\ Top.path = p
    BY <1>5 DEF At
  <2>2. Runs("fields")
    <3>1. EndFields \/ SkipField \/ PromoteFields \/ WriteField
      BY <2>1, DerivesView
    <3> QED BY <3>1, EndFieldsView, SkipFieldView, PromoteFieldsView, WriteFieldView DEF Derives
  <2>3. /\ Top.next \in Nat /\ Len(go[Top.type].fields) \in Nat
        /\ DOMAIN go[Top.type].fields = 1 .. Len(go[Top.type].fields)
    BY <2>2, FieldsCall
  <2>4. Top.next + 1 <= m /\ Top.next + 1 <= k /\ AtField
    BY <1>5, <2>2, <2>3 DEF Way, AtField
  <2>5. h.do = "fields" /\ h.path = p /\ h.type = Top.type /\ h.next = Top.next + 1
    BY <1>0, <2>1, <2>4, FieldSteps
  <2>6. h \in Calls'
    <3>1. \/ Stacks({h}, {})
          \/ \E f : Stacks({h, f}, {<<h, f>>})
      BY <1>0, <2>1, <2>4, FieldSteps
    <3> QED BY <3>1 DEF Stacks, Goes
  <2> QED BY <1>2, <1>5, <2>4, <2>5, <2>6 DEF At
<1> QED BY <1>3, <1>4, <1>5

\* Of two calls one may write the field: then the other is to write it again.
LEMMA TwoWaysInTwo ==
    ASSUME ModelSchemasInv, Shape, Derives, NEW p \in DOMAIN nodes, StructNode(p),
           NEW u, u = nodes[p].of, NEW place \in PlacesOf(u),
           NEW e \in CallPairs, At(e[1], p), At(e[2], p), Reaches(e[1], place), Reaches(e[2], place)
    PROVE  TwoWays(p, place)' \/ TakenAgain(p, place)'
<1>0. PICK h : h = GoOn
  OBVIOUS
<1>1. input' = input /\ input \in Inputs
  BY DerivesView DEF ModelSchemasInv, ModelSchemasTypeOK
<1>2. \A c : Reaches(c, place)' <=> Reaches(c, place)
  BY <1>1, SameTypes
<1>3. ASSUME NEW d \in CallPairs', At(d[1], p), At(d[2], p), Reaches(d[1], place), Reaches(d[2], place)
      PROVE  TwoWays(p, place)'
  <2>1. At(d[1], p)' /\ At(d[2], p)'
    BY <1>3 DEF At
  <2> QED BY <1>2, <1>3, <2>1 DEF TwoWays
<1>4. PICK new, order : Stacks(new, order)
  BY DerivesView
<1>5. CASE e \in Lower
  <2>1. e \in CallPairs'
    BY <1>4, <1>5 DEF Stacks
  <2> QED BY <1>3, <2>1
<1>6. CASE e \in Below \X {Top}
  <2>1. PICK c \in Below : e = <<c, Top>>
    BY <1>6
  <2>2. e[1] = c /\ e[2] = Top
    BY <2>1
  <2>3. Top.do = "fields" /\ Top.path = p /\ At(c, p) /\ Reaches(c, place) /\ Reaches(Top, place)
    BY <2>2 DEF At
  <2>4. Runs("fields")
    <3>1. EndFields \/ SkipField \/ PromoteFields \/ WriteField
      BY <2>3, DerivesView
    <3> QED BY <3>1, EndFieldsView, SkipFieldView, PromoteFieldsView, WriteFieldView DEF Derives
  <2>5. PICK s, i : s = place[1] /\ i = place[2]
    OBVIOUS
  <2>6. Declared(s, i) /\ place = <<s, i>> /\ Writes(FieldAt(place)) /\ s \in Types
    BY <1>1, <2>5, PlaceIsOwn DEF Declared
  <2>7. /\ AtField
        /\ \/ Reaches(h, place)
           \/ s = Top.type /\ i = Top.next
           \/ Promotes(CurrentField) /\ s \in Parts(Inner(CurrentField))
    BY <1>0, <2>3, <2>4, <2>6, ReachedNext
  <2>8. /\ h.do = "fields" /\ h.path = p
        /\ \/ SkipField /\ Stacks({h}, {}) /\ ~Promotes(CurrentField) /\ ~Writes(CurrentField)
           \/ /\ WriteField /\ ~Promotes(CurrentField)
              /\ \E f : Stacks({h, f}, {<<h, f>>})
              /\ seen' = seen \cup {Append(Top.path, CurrentField.property)}
              /\ Append(Top.path, CurrentField.property) \notin seen
           \/ /\ PromoteFields /\ Promotes(CurrentField) /\ ~Writes(CurrentField)
              /\ Inner(CurrentField) \in Types
              /\ \E f : /\ Stacks({h, f}, {<<h, f>>})
                        /\ f = FieldsFrame(Inner(CurrentField), 1, Top.path)
    BY <1>0, <2>3, <2>7, FieldSteps
  <2>9. ASSUME NEW new1, NEW order1, Stacks(new1, order1), NEW d \in new1, At(d, p), Reaches(d, place)
        PROVE  TwoWays(p, place)'
    <3>1. <<c, d>> \in CallPairs' /\ <<c, d>>[1] = c /\ <<c, d>>[2] = d
      BY <2>9 DEF Stacks
    <3> QED BY <1>3, <2>3, <2>9, <3>1
  <2>10. CASE Reaches(h, place)
    <3>1. \E new1, order1 : Stacks(new1, order1) /\ h \in new1
      BY <2>8
    <3> QED BY <2>8, <2>9, <2>10, <3>1 DEF At
  <2>11. CASE Promotes(CurrentField) /\ s \in Parts(Inner(CurrentField))
    <3>1. PICK f : /\ Stacks({h, f}, {<<h, f>>}) /\ Inner(CurrentField) \in Types
                   /\ f = FieldsFrame(Inner(CurrentField), 1, Top.path)
      BY <2>8, <2>11
    <3>2. Reaches(f, place)
      BY <1>1, <2>6, <2>11, <3>1, StartReaches DEF Declared
    <3>3. At(f, p) /\ f \in {h, f}
      BY <2>3, <3>1 DEF At, FieldsFrame
    <3> QED BY <2>9, <3>1, <3>2, <3>3
  <2>12. CASE s = Top.type /\ i = Top.next
    <3>1. FieldAt(place) = CurrentField
      BY <2>5, <2>12 DEF FieldAt, CurrentField
    <3>2. WriteField /\ seen' = seen \cup {Append(Top.path, CurrentField.property)}
      BY <2>6, <2>8, <3>1 DEF Writes
    <3>3. c \in Calls'
      BY <1>4, <2>1 DEF Stacks, Goes
    <3>4. Ahead(p, place)'
      BY <1>2, <2>3, <3>3 DEF Ahead, At
    <3>5. Append(p, FieldAt(place).property) \in seen'
      BY <2>3, <3>1, <3>2
    <3>6. FieldAt(place)' = FieldAt(place)
      BY <1>1, SameTypes
    <3> QED BY <3>4, <3>5, <3>6 DEF TakenAgain
  <2> QED BY <2>7, <2>10, <2>11, <2>12
<1> QED BY <1>4, <1>5, <1>6 DEF Stacks

LEMMA SeenGrows ==
    ASSUME ModelSchemasInv, Shape, Derives
    PROVE  seen \subseteq seen'
<1>1. CASE WriteField
  <2>1. \E f, path : seen' = seen \cup {path}
    BY <1>1, WriteFieldView DEF Derives
  <2> QED BY <2>1
<1>2. CASE ~WriteField
  BY <1>2, SeenAfter
<1> QED BY <1>1, <1>2

LEMMA TakenStays ==
    ASSUME ModelSchemasInv, Shape, Derives, NEW p \in DOMAIN nodes, StructNode(p),
           NEW place \in PlacesOf(nodes[p].of), TakenAgain(p, place)
    PROVE  TakenAgain(p, place)'
<1>1. input' = input
  BY DerivesView
<1>2. ASSUME WriteField, p = Top.path, place = Here PROVE FALSE
  <2>1. FieldAt(place) = CurrentField
    BY <1>2 DEF Here, FieldAt, CurrentField
  <2>2. \E f, path : path = Append(Top.path, CurrentField.property) /\ path \notin seen
    BY <1>2, WriteFieldView DEF Derives
  <2> QED BY <1>2, <2>1, <2>2 DEF TakenAgain
<1>3. Ahead(p, place)'
  BY <1>2, StillAhead DEF TakenAgain
<1>4. FieldAt(place)' = FieldAt(place)
  BY <1>1, SameTypes
<1> QED BY <1>3, <1>4, SeenGrows DEF TakenAgain

\* An embedded struct whose fields are begun, and another field that embeds it too.
LEMMA EmbeddedTaken ==
    ASSUME ModelSchemasInv, Shape, Derives, NEW p \in DOMAIN nodes, StructNode(p),
           NEW u, u = nodes[p].of, NoEndless(u), NEW e \in EmbeddedIn(u), NEW d \in EmbeddedIn(u),
           e # d, Inner(FieldAt(e)) = Inner(FieldAt(d)), NEW place \in PlacesOf(Inner(FieldAt(e))),
           Ahead(p, e), Ahead(p, d), ~Ahead(p, e)'
    PROVE  TwoWays(p, place)'
<1>0. PICK h, w : h = GoOn /\ w = Inner(FieldAt(e))
  OBVIOUS
<1>1. input' = input /\ input \in Inputs
  BY DerivesView DEF ModelSchemasInv, ModelSchemasTypeOK
<1>2. PromoteFields /\ p = Top.path /\ e = Here
  BY EmbeddedStill
<1>3. PICK f : f = FieldsFrame(Inner(CurrentField), 1, Top.path)
  OBVIOUS
<1>4. /\ Stacks({h, f}, {<<h, f>>}) /\ Inner(CurrentField) = w /\ w \in Types
      /\ Runs("fields")
  BY <1>0, <1>2, <1>3, PromoteFieldsView DEF Here, FieldAt, CurrentField
<1>5. At(f, p) /\ At(h, p)
  BY <1>0, <1>2, <1>3, <1>4 DEF At, GoOn, FieldsFrame
<1>6. place[1] \in Parts(w) /\ place[1] \in Types /\ place = <<place[1], place[2]>>
         /\ place[2] \in DOMAIN go[place[1]].fields
  BY <1>0, <1>1, PlaceIsOwn
<1>7. Reaches(f, place)
  BY <1>1, <1>2, <1>3, <1>4, <1>6, StartReaches
<1>8. Ahead(p, d)'
  BY <1>2, EmbeddedStill
<1>9. PICK c \in Calls' : c.do = "fields" /\ c.path = p /\ Reaches(c, d)
  BY <1>1, <1>8, SameTypes DEF Ahead
<1>10. PICK s \in Parts(u), i \in Nat \cup DOMAIN go[d[1]].fields :
              /\ d = <<s, i>> /\ Declared(s, i) /\ Promotes(go[s].fields[i])
              /\ d[1] = s /\ d[2] = i /\ FieldAt(d) = go[s].fields[i]
  BY EmbeddedDeclared
<1>11. w \in Promoted(s) /\ s \in Types
  BY <1>0, <1>1, <1>10, PromotedTypes DEF Declared
<1>12. ASSUME NEW v \in Types, s \in Parts(v) PROVE place[1] \in Parts(v)
  <2>1. w \in Parts(v)
    BY <1>1, <1>11, <1>12, PromotedInParts
  <2> QED BY <1>1, <1>6, <2>1, PartOfPart
<1>13. Reaches(c, place)
  <2>1. CASE c.type = s /\ c.next <= i
    <3>1. i \in DOMAIN go[c.type].fields /\ Promotes(go[c.type].fields[i])
             /\ place[1] \in Parts(Inner(go[c.type].fields[i]))
      BY <1>0, <1>6, <1>10, <2>1 DEF Declared
    <3> QED BY <2>1, <3>1 DEF Reaches
  <2>2. CASE ~(c.type = s /\ c.next <= i)
    <3>1. PICK m \in DOMAIN go[c.type].fields :
             c.next <= m /\ Promotes(go[c.type].fields[m]) /\ s \in Parts(Inner(go[c.type].fields[m]))
      BY <1>9, <1>10, <2>2 DEF Reaches
    <3>2. c.type \in Types
      <4>1. c \in Frame
        BY DerivesNext DEF ModelSchemasInv, ModelSchemasTypeOK, Calls
      <4> QED BY <1>9, <4>1 DEF Frame
    <3>3. Inner(go[c.type].fields[m]) \in Types
      BY <1>1, <3>2, PromotedTypes
    <3>4. place[1] \in Parts(Inner(go[c.type].fields[m]))
      BY <1>12, <3>1, <3>3
    <3> QED BY <3>1, <3>4 DEF Reaches
  <2> QED BY <2>1, <2>2
<1>14. \A b : Reaches(b, place)' <=> Reaches(b, place)
  BY <1>1, SameTypes
<1>15. ASSUME NEW b \in CallPairs', At(b[1], p), At(b[2], p), Reaches(b[1], place), Reaches(b[2], place)
      PROVE  TwoWays(p, place)'
  <2>1. At(b[1], p)' /\ At(b[2], p)'
    BY <1>15 DEF At
  <2> QED BY <1>14, <1>15, <2>1 DEF TwoWays
<1>16. CASE c \in Below
  <2>1. <<c, f>> \in CallPairs' /\ <<c, f>>[1] = c /\ <<c, f>>[2] = f
    BY <1>4, <1>16 DEF Stacks
  <2> QED BY <1>5, <1>7, <1>9, <1>13, <1>15, <2>1 DEF At
<1>17. CASE c = h
  <2>1. <<h, f>> \in CallPairs' /\ <<h, f>>[1] = h /\ <<h, f>>[2] = f
    BY <1>4 DEF Stacks
  <2> QED BY <1>5, <1>7, <1>13, <1>15, <1>17, <2>1
<1>18. CASE c = f
  <2>1. f.type = w
    BY <1>3, <1>4 DEF FieldsFrame
  <2>2. s \in Parts(w)
    BY <1>1, <1>4, <1>9, <1>10, <1>18, <2>1, ReachesPart
  <2>3. w \in Parts(u)
    BY <1>1, <1>10, <1>11, PromotedInParts
  <2>4. Endless(s)
    BY <1>1, <1>11, <2>2, EndlessByEmbedding
  <2> QED BY <1>10, <2>4 DEF NoEndless
<1> QED BY <1>4, <1>9, <1>16, <1>17, <1>18 DEF Stacks, Goes

DoubleWay ==
    \A p \in DOMAIN nodes : StructNode(p) /\ NoEndless(nodes[p].of) =>
        \A e, d \in EmbeddedIn(nodes[p].of) : e # d /\ Inner(FieldAt(e)) = Inner(FieldAt(d)) =>
            \A place \in PlacesOf(Inner(FieldAt(e))) :
                (Ahead(p, e) /\ Ahead(p, d)) \/ TwoWays(p, place) \/ TakenAgain(p, place)

\* The fields of an embedded struct are the struct's.
LEMMA EmbeddedFields ==
    ASSUME input \in Inputs, NEW u, NEW e \in EmbeddedIn(u)
    PROVE  /\ Inner(FieldAt(e)) \in Types /\ Inner(FieldAt(e)) \in Parts(u)
           /\ PlacesOf(Inner(FieldAt(e))) \subseteq PlacesOf(u)
<1>1. PICK s \in Parts(u), i \in Nat \cup DOMAIN go[e[1]].fields :
              /\ e = <<s, i>> /\ Declared(s, i) /\ Promotes(go[s].fields[i])
              /\ e[1] = s /\ e[2] = i /\ FieldAt(e) = go[s].fields[i]
  BY EmbeddedDeclared
<1>2. Inner(FieldAt(e)) \in Promoted(s) /\ Inner(FieldAt(e)) \in Types
  BY <1>1, PromotedTypes DEF Declared
<1>3. Inner(FieldAt(e)) \in Parts(u)
  BY <1>2, PromotedInParts
<1> QED BY <1>2, <1>3, PlacesOfPart

LEMMA DoubleWayStays ==
    ASSUME ModelSchemasInv, Shape, Derives, DoubleWay
    PROVE  DoubleWay'
<1>1. input' = input /\ KeepsNodes /\ input \in Inputs
  BY DerivesView DEF ModelSchemasInv, ModelSchemasTypeOK
<1>2. /\ \A t : EmbeddedIn(t)' = EmbeddedIn(t) /\ PlacesOf(t)' = PlacesOf(t)
      /\ \A t : NoEndless(t)' <=> NoEndless(t)
      /\ \A place : FieldAt(place)' = FieldAt(place)
      /\ \A f : Inner(f)' = Inner(f)
  BY <1>1, SameTypes, SameSight DEF NoEndless
<1> SUFFICES ASSUME NEW p \in DOMAIN nodes', StructNode(p)', NEW u, u = nodes'[p].of, NoEndless(u),
                    NEW e \in EmbeddedIn(u), NEW d \in EmbeddedIn(u), e # d,
                    NEW w, w = Inner(FieldAt(e)), w = Inner(FieldAt(d)), NEW place \in PlacesOf(w)
             PROVE  (Ahead(p, e)' /\ Ahead(p, d)') \/ TwoWays(p, place)' \/ TakenAgain(p, place)'
  BY <1>2 DEF DoubleWay
<1>3. CASE p \notin DOMAIN nodes
  <2>1. PICK t \in Types, c \in Calls' : nodes'[p].of = t /\ c = FieldsFrame(t, 1, p)
    BY <1>3, NewStruct
  <2>2. c.do = "fields" /\ c.path = p
    BY <2>1 DEF FieldsFrame
  <2>3. ASSUME NEW b \in EmbeddedIn(u) PROVE Ahead(p, b)'
    <3>1. PICK s \in Parts(u), i \in Nat \cup DOMAIN go[b[1]].fields :
              /\ b = <<s, i>> /\ Declared(s, i) /\ Promotes(go[s].fields[i])
              /\ b[1] = s /\ b[2] = i /\ FieldAt(b) = go[s].fields[i]
      BY <2>3, EmbeddedDeclared
    <3>2. Reaches(c, b)
      BY <1>1, <2>1, <3>1, StartReaches DEF Declared
    <3> QED BY <1>1, <2>1, <2>2, <3>2, SameTypes DEF Ahead
  <2> QED BY <2>3
<1>4. CASE p \in DOMAIN nodes
  <2>1. u = nodes[p].of /\ StructNode(p)
    BY <1>1, <1>4, SameNodes DEF KeepsNodes
  <2>2. place \in PlacesOf(u)
    BY <1>1, EmbeddedFields
  <2>3. (Ahead(p, e) /\ Ahead(p, d)) \/ TwoWays(p, place) \/ TakenAgain(p, place)
    BY <1>4, <2>1 DEF DoubleWay
  <2>4. CASE TakenAgain(p, place)
    BY <1>4, <2>1, <2>2, <2>4, TakenStays
  <2>5. CASE TwoWays(p, place)
    <3>1. CASE \E c \in Calls : At(c, p) /\ \E m, k \in DOMAIN go[c.type].fields :
                  m # k /\ Way(c, m, place) /\ Way(c, k, place)
      BY <1>4, <2>1, <2>2, <3>1, TwoWaysInOne
    <3>2. CASE \E b \in CallPairs :
                  At(b[1], p) /\ At(b[2], p) /\ Reaches(b[1], place) /\ Reaches(b[2], place)
      BY <1>4, <2>1, <2>2, <3>2, TwoWaysInTwo
    <3> QED BY <2>5, <3>1, <3>2 DEF TwoWays
  <2>6. CASE Ahead(p, e) /\ Ahead(p, d)
    <3>1. CASE ~Ahead(p, e)'
      BY <1>4, <2>1, <2>6, <3>1, EmbeddedTaken
    <3>2. CASE ~Ahead(p, d)'
      BY <1>4, <2>1, <2>6, <3>2, EmbeddedTaken
    <3> QED BY <3>1, <3>2
  <2> QED BY <2>3, <2>4, <2>5, <2>6
<1> QED BY <1>3, <1>4

\* What a struct owes before it can be said to be written whole.
Whole == Once /\ NeverEnds /\ DoubleWay

LEMMA WholeStays ==
    ASSUME ModelSchemasInv, Shape, Derives, Whole
    PROVE  Whole'
BY NewStructAhead, OnceStays, NeverEndsStays, DoubleWayStays DEF Whole

LEMMA BeginHolds ==
    ASSUME ModelSchemasInv, BeginModel, ~Refuse
    PROVE  Whole'
<1> SUFFICES ASSUME NEW t, t = models[index].type PROVE Whole'
  OBVIOUS
<1>1. input' = input /\ input \in Inputs /\ t \in Types /\ at = "model"
  BY ModelUnderWay DEF BeginModel, ModelSchemasInv, ModelSchemasTypeOK
<1>2. CASE /\ stack' = <<CloseFrame(t), FieldsFrame(t, 1, <<>>)>>
           /\ nodes' = [p \in {<<>>} |-> Written("object", t)]
  <2>1. DOMAIN nodes' = {<<>>} /\ nodes'[<<>>].of = t
    BY <1>2 DEF Written
  <2>2. PICK c : c = FieldsFrame(t, 1, <<>>)
    OBVIOUS
  <2>3. c \in Calls' /\ c.do = "fields" /\ c.path = <<>>
    <3>1. 2 \in DOMAIN stack' /\ stack'[2] = c
      BY <1>2, <2>2
    <3> QED BY <2>2, <3>1 DEF Calls, FieldsFrame
  <2>4. /\ \A u : EmbeddedIn(u)' = EmbeddedIn(u) /\ PlacesOf(u)' = PlacesOf(u) /\ Parts(u)' = Parts(u)
        /\ \A s : (Endless(s)' <=> Endless(s)) /\ (Embeds(c, s)' <=> Embeds(c, s))
        /\ \A place : Reaches(c, place)' <=> Reaches(c, place)
    BY <1>1, SameTypes, SameSight DEF Embeds
  <2>5. ASSUME NEW place, Reaches(c, place) PROVE Ahead(<<>>, place)'
    BY <2>3, <2>4, <2>5 DEF Ahead
  <2>6. Once'
    <3>1. \A place \in PlacesOf(t) : Ahead(<<>>, place)'
      BY <1>1, <2>2, <2>5, AllAhead
    <3> QED BY <2>1, <2>4, <3>1 DEF Once
  <2>7. NeverEnds'
    <3>1. \A s \in Parts(t) : Endless(s) => Embeds(c, s)
      BY <1>1, <2>2, EndlessEmbeds
    <3> QED BY <2>1, <2>3, <2>4, <3>1 DEF NeverEnds
  <2>8. DoubleWay'
    <3>1. ASSUME NEW b \in EmbeddedIn(t) PROVE Ahead(<<>>, b)'
      <4>1. PICK s \in Parts(t), i \in Nat \cup DOMAIN go[b[1]].fields :
              /\ b = <<s, i>> /\ Declared(s, i) /\ Promotes(go[s].fields[i])
              /\ b[1] = s /\ b[2] = i /\ FieldAt(b) = go[s].fields[i]
        BY <3>1, EmbeddedDeclared
      <4>2. Reaches(c, b)
        BY <1>1, <2>2, <4>1, StartReaches DEF Declared
      <4> QED BY <2>5, <4>2
    <3> QED BY <2>1, <2>4, <3>1 DEF DoubleWay
  <2> QED BY <2>6, <2>7, <2>8 DEF Whole
<1>3. CASE nodes' = Empty
  <2>1. DOMAIN nodes' = {}
    BY <1>3 DEF Empty
  <2> QED BY <2>1 DEF Whole, Once, NeverEnds, DoubleWay
<1> QED BY <1>2, <1>3 DEF BeginModel

-----------------------------------------------------------------------------
(* What is described: when no call is left the type has no flaw. *)

\* Of bounded numbers one is the greatest.
LEMMA Greatest ==
    ASSUME NEW S, S \subseteq Nat, S # {}, NEW n \in Nat, \A x \in S : x <= n
    PROVE  \E x \in S : \A y \in S : y <= x
<1> DEFINE T == {m \in Nat : \E x \in S : m + x = n}
<1> DEFINE R == OpToRel(<, Nat)
<1>0. ASSUME NEW x \in S PROVE x \in Nat /\ n - x \in T /\ n - x \in Nat
  <2>1. x \in Nat /\ x <= n
    OBVIOUS
  <2>2. n - x \in Nat /\ (n - x) + x = n
    BY <2>1
  <2> QED BY <2>1, <2>2
<1>1. T \subseteq Nat /\ T # {}
  BY <1>0
<1>2. IsWellFoundedOn(R, Nat)
  BY NatLessThanWellFounded
<1>3. \A x, y \in Nat : x < y => <<x, y>> \in R
  BY DEF OpToRel
<1>4. \E x \in T : \A y \in T : ~(<<y, x>> \in R)
  <2> HIDE DEF T, R
  <2> QED BY <1>1, <1>2, WFMin
<1>5. PICK x \in T : \A y \in T : ~(y < x)
  <2> HIDE DEF R
  <2> QED BY <1>1, <1>3, <1>4
<1>6. PICK z \in S : x + z = n
  BY <1>5
<1>7. ASSUME NEW y \in S PROVE y <= z
  <2>1. n - y \in T /\ y \in Nat /\ z \in Nat /\ x \in Nat /\ n - y \in Nat
    BY <1>0
  <2>2. ~(n - y < x)
    BY <1>5, <2>1
  <2> QED BY <1>6, <2>1, <2>2
<1> QED BY <1>6, <1>7

Finished ==
    /\ ModelSchemasInv /\ Shape /\ Sight /\ Tagged /\ Whole /\ WrittenSoFar
    /\ at = "derive" /\ stack = <<>>
    /\ \A p \in DOMAIN nodes : ~nodes[p].repeats

LEMMA NoCallLeft ==
    ASSUME Finished
    PROVE  /\ Calls = {} /\ CallPairs = {}
           /\ \A p, place : ~Ahead(p, place) /\ ~TwoWays(p, place) /\ ~TakenAgain(p, place)
           /\ \A q : ~Waits(q) /\ ~Coming(q) /\ ~Twice(q)
           /\ input \in Inputs /\ Subject \in Types /\ DOMAIN nodes \subseteq Seq(Step)
<1>1. Calls = {} /\ CallPairs = {}
  BY DEF Finished, Calls, CallPairs
<1>2. input \in Inputs /\ Subject \in Types /\ DOMAIN nodes \subseteq Seq(Step)
  BY SubjectType DEF Finished, ModelSchemasInv, ModelSchemasTypeOK
<1> QED BY <1>1, <1>2 DEF Ahead, TwoWays, TakenAgain, Waits, Coming, Twice

\* Every field of a struct has a node, of what the field's type points to, and its tag was followed.
LEMMA FieldDone ==
    ASSUME Finished, NEW p \in DOMAIN nodes, StructNode(p), NEW f \in WrittenFields(nodes[p].of)
    PROVE  /\ ~f.unknown /\ f.property \in Step
           /\ Append(p, f.property) \in DOMAIN nodes
           /\ nodes[Append(p, f.property)].of \in Pointees(f.type)
           /\ NodeTagged(Append(p, f.property), f)
<1>1. PICK place \in PlacesOf(nodes[p].of) : f = FieldAt(place)
  BY DEF WrittenFields
<1>2. ~Ahead(p, place) /\ ~Coming(Append(p, f.property)) /\ input \in Inputs
  BY NoCallLeft
<1>3. Owed(Append(p, f.property), f.type)
  BY <1>1, <1>2 DEF Finished, Shape, FieldsOwed, Settled
<1>4. ~f.unknown /\ TagFits(Append(p, f.property), f)
  BY <1>1, <1>2 DEF Finished, Tagged, FieldsTagged
<1>5. f.property \in Step
  BY <1>1, <1>2, WrittenFieldsType DEF Field, Step
<1> QED BY <1>2, <1>3, <1>4, <1>5 DEF Owed, TagFits

\* What a node's type contains has a node below it.
LEMMA ContainsDone ==
    ASSUME Finished, NEW p \in DOMAIN nodes, NEW v \in Contains(nodes[p].of)
    PROVE  \E q \in DOMAIN nodes : Len(q) = Len(p) + 1 /\ nodes[q].of \in Pointees(v)
<1>1. PICK u : u = nodes[p].of
  OBVIOUS
<1>2. input \in Inputs /\ p \in Seq(Step) /\ u \in Types
  BY <1>1, NoCallLeft, StructType DEF Finished
<1>3. Says(nodes[p]) /\ (nodes[p].kind = "ref" => Named(u))
  BY <1>1 DEF Finished, WrittenSoFar, Sayable, Shape, NodesFit
<1>4. go[u].kind # "pointer"
  BY <1>1, <1>3 DEF Says
<1>5. ~Named(u) /\ nodes[p].kind # "ref"
  BY <1>1, <1>2, <1>3, <1>4, ContainsCases
<1>6. ASSUME NEW s \in Step, Append(p, s) \in DOMAIN nodes, nodes[Append(p, s)].of \in Pointees(v)
      PROVE  \E q \in DOMAIN nodes : Len(q) = Len(p) + 1 /\ nodes[q].of \in Pointees(v)
  <2>1. Len(Append(p, s)) = Len(p) + 1
    BY <1>2
  <2> QED BY <1>6, <2>1
<1>7. CASE go[u].kind = "struct"
  <2>1. StructNode(p)
    BY <1>1, <1>3, <1>5, <1>7 DEF Says, StructNode
  <2>2. PICK f \in WrittenFields(u) : v = f.type
    BY <1>1, <1>2, <1>5, <1>7, ContainsCases
  <2> QED BY <1>1, <1>6, <2>1, <2>2, FieldDone
<1>8. CASE go[u].kind \in {"list", "array", "map"}
  <2>1. Listed(p)
    BY <1>1, <1>3, <1>5, <1>8 DEF Says, Listed
  <2>2. v = go[u].elem
    BY <1>1, <1>2, <1>5, <1>8, ContainsCases
  <2>3. Owed(Append(p, Into(p)), v)
    BY <1>1, <2>1, <2>2 DEF Finished, Shape, ElementsOwed
  <2>4. Into(p) \in Step
    BY DEF Into, Step
  <2> QED BY <1>6, <2>3, <2>4, NoCallLeft DEF Owed
<1>9. go[u].kind \in {"struct", "list", "array", "map"}
  BY <1>1, <1>2, <1>4, ContainsCases
<1> QED BY <1>7, <1>8, <1>9

LEMMA NodesGrounded ==
    ASSUME Finished
    PROVE  \A p \in DOMAIN nodes : nodes[p].of \in Grounded
<1> DEFINE Bad == {p \in DOMAIN nodes : nodes[p].of \notin Grounded}
<1> DEFINE S == {Len(p) : p \in Bad}
<1> SUFFICES ASSUME Bad # {} PROVE FALSE
  OBVIOUS
<1>1. input \in Inputs /\ DOMAIN nodes \subseteq Seq(Step)
  BY NoCallLeft
<1>2. PICK n \in Nat : \A p \in DOMAIN nodes : Len(p) <= n
  BY DEF Finished, WrittenSoFar, Bounded
<1>3. S \subseteq Nat /\ S # {} /\ \A x \in S : x <= n
  <2>1. \A p \in Bad : p \in Seq(Step) /\ Len(p) <= n
    BY <1>1, <1>2
  <2>2. \A p \in Bad : Len(p) \in Nat
    BY <2>1
  <2>3. \A x \in S : x \in Nat /\ x <= n
    BY <2>1, <2>2
  <2> QED BY <2>3
<1>4. PICK x \in S : \A y \in S : y <= x
  <2> HIDE DEF S
  <2> QED BY <1>3, Greatest
<1>5. PICK p \in Bad : x = Len(p)
  BY <1>4
<1>6. PICK u : u = nodes[p].of
  OBVIOUS
<1>7. u \in Types /\ u \notin Grounded
  BY <1>5, <1>6, StructType DEF Finished
<1>8. PICK v \in Contains(u) : v \notin Grounded
  BY <1>7, GroundedIsClosed
<1>9. v \in Types
  BY <1>1, <1>7, <1>8, ContainsCases
<1>10. PICK q \in DOMAIN nodes : Len(q) = Len(p) + 1 /\ nodes[q].of \in Pointees(v)
  BY <1>5, <1>6, <1>8, ContainsDone
<1>11. nodes[q].of \notin Grounded
  BY <1>1, <1>8, <1>9, <1>10, PointeeGrounded
<1>12. Len(q) \in S
  BY <1>10, <1>11
<1>13. Len(q) <= Len(p) /\ Len(p) \in Nat /\ Len(q) \in Nat
  BY <1>3, <1>4, <1>5, <1>12
<1> QED BY <1>10, <1>13

\* Every value the type contains has a node.
LEMMA ValuesDone ==
    ASSUME Finished, NEW v \in ValuesIn(Subject)
    PROVE  v \in Types /\ \E p \in DOMAIN nodes : nodes[p].of \in Pointees(v)
<1> DEFINE S == {w \in Types : \E p \in DOMAIN nodes : nodes[p].of \in Pointees(w)}
<1>0. PICK t : t = Subject
  OBVIOUS
<1>1. input \in Inputs /\ t \in Types
  BY <1>0, NoCallLeft
<1>2. Owed(<<>>, t) /\ <<>> \in DOMAIN nodes /\ nodes[<<>>].of \in Pointees(t)
  <2>1. Owed(<<>>, t)
    BY <1>0 DEF Finished, Shape, Subject
  <2> QED BY <2>1, NoCallLeft DEF Owed
<1>3. Root(t) \subseteq S
  <2>1. CASE go[t].kind = "struct"
    <3>1. nodes[<<>>].of = t
      BY <1>1, <1>2, <2>1, UnderIsLess
    <3>2. StructNode(<<>>)
      BY <1>0, <2>1 DEF Finished, WrittenSoFar, RootWritten
    <3>3. ASSUME NEW f \in WrittenFields(t) PROVE f.type \in S
      <4>1. f.type \in Types
        BY <1>1, WrittenFieldsType DEF WrittenFields
      <4>2. /\ Append(<<>>, f.property) \in DOMAIN nodes
            /\ nodes[Append(<<>>, f.property)].of \in Pointees(f.type)
        BY <1>2, <3>1, <3>2, FieldDone
      <4> QED BY <4>1, <4>2
    <3> QED BY <2>1, <3>3 DEF Root
  <2>2. CASE go[t].kind # "struct"
    BY <1>1, <1>2, <2>2 DEF Root
  <2> QED BY <2>1, <2>2
<1>4. ASSUME NEW w \in S PROVE Contains(w) \subseteq S
  <2>1. PICK p \in DOMAIN nodes : nodes[p].of \in Pointees(w)
    BY <1>4
  <2>2. CASE go[w].kind = "pointer"
    <3>1. Contains(w) = {go[w].elem} /\ go[w].elem \in Types /\ nodes[p].of \in Pointees(go[w].elem)
      BY <1>1, <2>1, <2>2, ContainsCases, UnderIsLess
    <3> QED BY <3>1
  <2>3. CASE go[w].kind # "pointer"
    <3>1. nodes[p].of = w
      BY <1>1, <2>1, <2>3, UnderIsLess
    <3>2. \A x \in Contains(w) : x \in Types /\ \E q \in DOMAIN nodes : nodes[q].of \in Pointees(x)
      BY <1>1, <3>1, ContainsCases, ContainsDone
    <3> QED BY <3>2
  <2> QED BY <2>2, <2>3
<1>5. ValuesIn(t) \subseteq S
  <2>1. S \subseteq Types
    OBVIOUS
  <2> HIDE DEF S
  <2> QED BY <1>3, <1>4, <2>1 DEF ValuesIn, Reached
<1> QED BY <1>0, <1>5

LEMMA InlinedDone ==
    ASSUME Finished, NEW u \in Inlined(Subject)
    PROVE  u \in Types /\ \E p \in DOMAIN nodes : nodes[p].of = u /\ nodes[p].kind # "ref" /\ Says(nodes[p])
<1>1. u \in ValuesIn(Subject) /\ go[u].kind # "pointer" /\ ~Named(u)
  BY DEF Inlined
<1>2. u \in Types
  BY <1>1, ValuesDone
<1>3. PICK p \in DOMAIN nodes : nodes[p].of \in Pointees(u)
  BY <1>1, ValuesDone
<1>4. nodes[p].of = u
  BY <1>1, <1>2, <1>3, NoCallLeft, UnderIsLess
<1> QED BY <1>1, <1>2, <1>4 DEF Finished, Shape, NodesFit, WrittenSoFar, Sayable

LEMMA StructsDone ==
    ASSUME Finished, NEW u \in Structs(Subject)
    PROVE  \E p \in DOMAIN nodes : StructNode(p) /\ nodes[p].of = u
<1>1. go[u].kind = "struct"
  BY DEF Structs
<1>2. CASE u = Subject
  <2>1. StructNode(<<>>)
    BY <1>1, <1>2 DEF Finished, WrittenSoFar, RootWritten
  <2>2. Owed(<<>>, u)
    BY <1>2 DEF Finished, Shape, Subject
  <2>3. nodes[<<>>].of \in Pointees(u)
    BY <2>1, <2>2 DEF Owed, StructNode
  <2>4. nodes[<<>>].of = u
    BY <1>1, <1>2, <2>3, NoCallLeft, UnderIsLess
  <2> QED BY <2>1, <2>4 DEF StructNode
<1>3. CASE u \in Inlined(Subject)
  BY <1>1, <1>3, InlinedDone DEF Says, StructNode
<1> QED BY <1>2, <1>3 DEF Structs

-----------------------------------------------------------------------------
(* A model whose schema is stored has no flaw. *)

LEMMA ValueGrounded ==
    ASSUME Finished, NEW v \in ValuesIn(Subject)
    PROVE  v \in Types /\ v \notin Held(v)
<1>1. v \in Types /\ input \in Inputs
  BY ValuesDone, NoCallLeft
<1>2. PICK p \in DOMAIN nodes : nodes[p].of \in Pointees(v)
  BY ValuesDone
<1>3. v \in Grounded
  BY <1>1, <1>2, NodesGrounded, PointeeGrounded
<1> QED BY <1>1, <1>3, GroundedHolds

\* Nothing that JSON Schema cannot say, and no struct within itself.
LEMMA InlinedSaid ==
    ASSUME Finished, NEW u \in Inlined(Subject)
    PROVE  /\ go[u].kind # "none"
           /\ ~(go[u].kind = "list" /\ go[go[u].elem].kind = "byte")
           /\ ~(go[u].kind = "map" /\ ~go[u].textKeys)
           /\ u \notin Reached(Contains(u), Contains)
<1>1. PICK p \in DOMAIN nodes : nodes[p].of = u /\ nodes[p].kind # "ref" /\ Says(nodes[p])
  BY InlinedDone
<1>2. u \notin Held(u)
  BY ValueGrounded DEF Inlined
<1> QED BY <1>1, <1>2 DEF Says, Held

\* No struct is embedded in itself.
LEMMA StructEnds ==
    ASSUME Finished, NEW u \in Structs(Subject)
    PROVE  NoEndless(u)
<1>1. PICK p \in DOMAIN nodes : StructNode(p) /\ nodes[p].of = u
  BY StructsDone
<1> QED BY <1>1, NoCallLeft DEF Finished, Whole, NeverEnds, NoEndless

LEMMA NoCollision ==
    ASSUME Finished, NEW u \in Structs(Subject)
    PROVE  ~Collides(u)
<1>1. PICK p \in DOMAIN nodes : StructNode(p) /\ nodes[p].of = u
  BY StructsDone
<1>2. NoEndless(u)
  BY StructEnds
<1>3. ASSUME NEW a \in PlacesOf(u), NEW b \in PlacesOf(u), a # b,
             FieldAt(a).property = FieldAt(b).property
      PROVE  FALSE
  BY <1>1, <1>3, NoCallLeft DEF Finished, Whole, Once
<1>4. ASSUME NEW s \in Parts(u), NEW v \in Parts(u),
             NEW i \in DOMAIN go[s].fields, NEW j \in DOMAIN go[v].fields,
             <<s, i>> # <<v, j>>, Promotes(go[s].fields[i]), Promotes(go[v].fields[j]),
             Inner(go[s].fields[i]) = Inner(go[v].fields[j]),
             PlacesOf(Inner(go[s].fields[i])) # {}
      PROVE  FALSE
  <2>1. PICK e, d : e = <<s, i>> /\ d = <<v, j>>
    OBVIOUS
  <2>2. e \in EmbeddedIn(u) /\ d \in EmbeddedIn(u) /\ e # d
    BY <1>4, <2>1, EmbeddedPlaces
  <2>3. FieldAt(e) = go[s].fields[i] /\ FieldAt(d) = go[v].fields[j]
    BY <2>1 DEF FieldAt
  <2>4. PICK place : place \in PlacesOf(Inner(FieldAt(e)))
    BY <1>4, <2>3
  <2>5. Inner(FieldAt(e)) = Inner(FieldAt(d))
    BY <1>4, <2>3
  <2> QED BY <1>1, <1>2, <2>2, <2>4, <2>5, NoCallLeft DEF Finished, Whole, DoubleWay
<1>5. \A s \in Parts(u) : s \notin Reached(Promoted(s), Promoted)
  BY <1>2 DEF NoEndless, Endless
<1> QED BY <1>3, <1>4, <1>5 DEF Collides

\* Every field's tags were followed.
LEMMA TagsFollowed ==
    ASSUME Finished, NEW u \in Structs(Subject), NEW f \in WrittenFields(u)
    PROVE  ~f.unknown /\ ~NoEnum(f)
<1>1. PICK p \in DOMAIN nodes : StructNode(p) /\ nodes[p].of = u
  BY StructsDone
<1>2. PICK q : q = Append(p, f.property)
  OBVIOUS
<1>3. ~f.unknown /\ q \in DOMAIN nodes /\ nodes[q].of \in Pointees(f.type) /\ NodeTagged(q, f)
  BY <1>1, <1>2, FieldDone
<1>4. input \in Inputs /\ f.type \in Types
  BY NoCallLeft, WrittenFieldsType DEF WrittenFields
<1>5. ASSUME NEW w \in Pointees(f.type), ~Named(w), go[w].kind # "struct", f.enum # "none",
             EnumRefused(SchemaKind(go[w].kind), f.enum) \/ Deep(f.type)
      PROVE  FALSE
  <2>1. nodes[q].of = w
    BY <1>3, <1>4, OnePointee
  <2>2. nodes[q].kind # "ref"
    BY <1>3, <1>5, <2>1 DEF Finished, Shape, NodesFit
  <2>3. ~Waits(q) /\ ~Twice(q) /\ Calls = {} /\ ~nodes[q].repeats
    BY <1>3, NoCallLeft DEF Finished
  <2>4. CASE Scalar(q)
    BY <1>3, <1>5, <2>1, <2>3, <2>4 DEF NodeTagged
  <2>5. CASE ~Scalar(q)
    <3>1. Listed(q)
      BY <1>3, <1>5, <2>1, <2>2, <2>5 DEF Scalar, Listed
    <3> QED BY <1>3, <1>5, <2>3, <3>1 DEF NodeTagged
  <2> QED BY <2>4, <2>5
<1> QED BY <1>3, <1>5 DEF NoEnum, EnumRefused, Deep

LEMMA Described ==
    ASSUME Finished
    PROVE  ~Indescribable(Subject) /\ ~Bottomless(Subject)
<1>1. ~Indescribable(Subject)
  BY InlinedSaid, NoCollision, TagsFollowed DEF Indescribable, Mute
<1>2. ASSUME NEW u \in ValuesIn(Subject) PROVE u \notin Reached(NotStruct(u), NotStruct)
  <2>1. u \in Types /\ u \notin Held(u) /\ input \in Inputs
    BY ValueGrounded, NoCallLeft
  <2>2. \A t \in Types : NotStruct(t) \subseteq Contains(t)
    BY DEF NotStruct
  <2>3. Held(u) \subseteq Types /\ NotStruct(u) \subseteq Held(u)
    BY <2>1, <2>2, HeldIsClosed
  <2>4. \A v \in Held(u) : NotStruct(v) \subseteq Held(u)
    BY <2>1, <2>2, <2>3, HeldIsClosed
  <2> QED BY <2>1, <2>3, <2>4 DEF Reached
<1>3. \A u \in Structs(Subject) : \A s \in Parts(u) : s \notin Reached(Promoted(s), Promoted)
  BY StructEnds DEF NoEndless, Endless
<1> QED BY <1>1, <1>2, <1>3 DEF Bottomless, EmbedsItself, Circular

-----------------------------------------------------------------------------
(* Derivation is exact. *)

Deriving == Sight /\ Tagged /\ Apart /\ NotYet /\ Whole /\ WrittenSoFar

\* A component that is there has the name of a model before the one under way.
NamesStored == \A n \in DOMAIN out : \E i \in DOMAIN models : i < index /\ models[i].name = n

StoredDescribed ==
    at \in {"model", "derive", "done"} => \A i \in DOMAIN models : i < index =>
        ~Indescribable(models[i].type) /\ ~Bottomless(models[i].type)

\* Why models are refused.
Reasons ==
    \/ BadModels
    \/ \E i, j \in DOMAIN models : i # j /\ models[i].name = models[j].name
    \/ \E i \in DOMAIN models : Indescribable(models[i].type)

ExactInv ==
    /\ FitInv
    /\ at = "derive" => Deriving
    /\ NamesStored /\ StoredDescribed
    /\ at = "refused" => Reasons

LEMMA SameReasons ==
    ASSUME input' = input
    PROVE  /\ models' = models /\ (Reasons' <=> Reasons)
           /\ \A t : (Indescribable(t)' <=> Indescribable(t)) /\ (Bottomless(t)' <=> Bottomless(t))
BY SameSight DEF Reasons, models

LEMMA RefuseExact ==
    ASSUME FitInv, Refuse, Reasons
    PROVE  ExactInv'
<1>1. FitInv' /\ input' = input /\ at' = "refused" /\ DOMAIN out' = {}
  BY RefuseFits DEF Refuse, Empty
<1> QED BY <1>1, SameReasons DEF ExactInv, NamesStored, StoredDescribed

LEMMA InitExact ==
    ASSUME ModelSchemasInit
    PROVE  ExactInv
BY InitFits DEF ExactInv, NamesStored, StoredDescribed, ModelSchemasInit, Empty

LEMMA ReadNamesExact ==
    ASSUME ExactInv, ReadNames
    PROVE  ExactInv'
<1>1. CASE Refuse
  BY <1>1, RefuseExact DEF ReadNames, Refuse, ExactInv, Reasons
<1>2. CASE ~Refuse
  <2>1. FitInv' /\ FitInv
    BY ReadNamesFits DEF ExactInv
  <2>2. /\ at' = "model" /\ index' = index /\ out' = out /\ input' = input /\ models' = models
        /\ index = 1 /\ input \in Inputs
    BY <1>2, <2>1, SameTypes DEF ReadNames, FitInv, StoredFit, ModelSchemasInv, ModelSchemasTypeOK
  <2>3. \A i \in DOMAIN models : ~(i < index)
    BY <2>2, InputTypes, LenProperties
  <2>4. NamesStored'
    BY <2>2 DEF ExactInv, NamesStored
  <2> QED BY <2>1, <2>2, <2>3, <2>4 DEF ExactInv, StoredDescribed
<1> QED BY <1>1, <1>2

LEMMA BeginModelExact ==
    ASSUME ExactInv, BeginModel
    PROVE  ExactInv'
<1>1. CASE Refuse
  <2>1. models[index].name \in DOMAIN out
    BY <1>1 DEF BeginModel, Refuse
  <2>2. PICK i \in DOMAIN models : i < index /\ models[i].name = models[index].name
    BY <2>1 DEF ExactInv, NamesStored
  <2>3. index \in DOMAIN models /\ index \in Nat
    BY ModelUnderWay DEF BeginModel, ExactInv, FitInv
  <2>4. i # index
    BY <2>2, <2>3
  <2> QED BY <1>1, <2>2, <2>3, <2>4, RefuseExact DEF ExactInv, Reasons
<1>2. CASE ~Refuse
  <2>1. ModelSchemasInv /\ FitInv'
    BY BeginModelFits DEF ExactInv, FitInv
  <2>2. Deriving'
    BY <1>2, <2>1, BeginSight, BeginTags, BeginApart, BeginHolds, BeginWrittenSoFar DEF Deriving
  <2>3. at = "model" /\ at' = "derive" /\ index' = index /\ out' = out /\ input' = input
    BY <1>2 DEF BeginModel
  <2>4. NamesStored' /\ StoredDescribed'
    BY <2>3, SameReasons DEF ExactInv, NamesStored, StoredDescribed
  <2> QED BY <2>1, <2>2, <2>3, <2>4 DEF ExactInv
<1> QED BY <1>1, <1>2

LEMMA StoreModelExact ==
    ASSUME ExactInv, StoreModel
    PROVE  ExactInv'
<1>1. at = "derive" /\ stack = <<>> /\ FitInv /\ ModelSchemasInv /\ Shape /\ Deriving
  BY DEF StoreModel, ExactInv, FitInv, ShapeInv
<1>2. index \in DOMAIN models /\ index \in Nat /\ DOMAIN models \subseteq Nat
  <2>1. index <= Len(models)
    BY <1>1 DEF ModelSchemasInv, ModelSchemasTypeOK
  <2> QED BY <1>1, <2>1, ModelUnderWay
<1>3. CASE Refuse
  <2>1. Indescribable(Subject)
    BY <1>1, <1>3, RepeatsRefused DEF Deriving
  <2> QED BY <1>1, <1>2, <1>3, <2>1, RefuseExact DEF Reasons, Subject
<1>4. CASE ~Refuse
  <2>1. /\ at' = "model" /\ index' = index + 1 /\ input' = input
        /\ DOMAIN out' = DOMAIN out \cup {models[index].name}
        /\ \A p \in DOMAIN nodes : ~nodes[p].repeats
    BY <1>4 DEF StoreModel
  <2>2. FitInv'
    BY <1>1, StoreModelFits
  <2>3. ~Indescribable(models[index].type) /\ ~Bottomless(models[index].type)
    BY <1>1, <2>1, Described DEF Finished, Deriving, Subject
  <2>4. \A i \in DOMAIN models : i < index + 1 <=> i < index \/ i = index
    BY <1>2
  <2>5. models' = models
    BY <2>1, SameReasons
  <2>6. NamesStored'
    BY <1>2, <2>1, <2>4, <2>5 DEF ExactInv, NamesStored
  <2>7. StoredDescribed'
    <3>1. \A i \in DOMAIN models : i < index + 1 =>
             ~Indescribable(models[i].type) /\ ~Bottomless(models[i].type)
      BY <1>1, <2>3, <2>4 DEF ExactInv, StoredDescribed
    <3> QED BY <2>1, <2>5, <3>1, SameReasons DEF StoredDescribed
  <2> QED BY <2>1, <2>2, <2>6, <2>7 DEF ExactInv
<1> QED BY <1>3, <1>4

\* A step of deriver keeps what is said of the schema under way.
LEMMA DerivingStays ==
    ASSUME ModelSchemasInv, Shape, Derives, Deriving
    PROVE  Deriving'
<1>1. Sight'
  BY QuietSight, DereferenceSight, LeafSight, EnterElementsSight, EnterStructSight,
     MakeNullableSight, FieldsSight DEF Derives, Deriving
<1>2. Tagged'
  BY QuietTags, WriteFieldTags, DereferenceTags, LeafTags, EnterElementsTags, EnterStructTags,
     MakeNullableTags DEF Derives, Deriving
<1>3. Apart' /\ NotYet'
  BY ApartStays, NotYetStays DEF Deriving, Tagged
<1> QED BY <1>1, <1>2, <1>3, WholeStays, WrittenSoFarStays DEF Deriving

LEMMA DeriverExact ==
    ASSUME ExactInv, Derives
    PROVE  ExactInv'
<1>1. at = "derive" /\ UNCHANGED locals
  BY DEF Derives, Dereference, Refer, WriteScalar, EnterElements, EndElements, EnterStruct,
         CloseStruct, MakeNullable, EndFields, SkipField, PromoteFields, WriteField, AtField,
         Describes, Runs
<1>2. ModelSchemasInv /\ Shape /\ Deriving /\ FitInv'
  BY <1>1, StepFits DEF Derives, ModelSchemasNext, ExactInv, FitInv, ShapeInv
<1>3. Deriving'
  BY <1>2, DerivingStays
<1>4. at' = "derive" /\ index' = index /\ out' = out /\ input' = input
  BY <1>1 DEF locals
<1>5. NamesStored' /\ StoredDescribed'
  BY <1>1, <1>4, SameReasons DEF ExactInv, NamesStored, StoredDescribed
<1> QED BY <1>2, <1>3, <1>4, <1>5 DEF ExactInv

\* What deriver refuses cannot be described.
LEMMA DeriverRefusesExact ==
    ASSUME ExactInv, Refuse,
           \/ Dereference \/ Refer \/ WriteScalar \/ RefuseType \/ EnterElements
           \/ EndElements \/ EnterStruct \/ CloseStruct \/ MakeNullable
           \/ EndFields \/ SkipField \/ PromoteFields \/ WriteField
    PROVE  ExactInv'
<1>1. at = "derive" /\ at' = "refused"
  BY DEF Dereference, Refer, WriteScalar, RefuseType, EnterElements, EndElements, EnterStruct,
         CloseStruct, MakeNullable, EndFields, SkipField, PromoteFields, WriteField, AtField,
         Describes, Runs, Refuse
<1>2. FitInv /\ ModelSchemasInv /\ Shape /\ Deriving
  BY <1>1 DEF ExactInv, FitInv, ShapeInv
<1>3. WriteScalar \/ RefuseType \/ EndElements \/ EnterStruct \/ WriteField
  BY <1>1 DEF Dereference, Refer, EnterElements, CloseStruct, MakeNullable, EndFields,
              SkipField, PromoteFields, locals
<1>4. Indescribable(Subject)
  BY <1>2, <1>3, ScalarRefused, TypeRefused, ElementsRefused, StructRefused, FieldRefused
  DEF Deriving
<1>5. index \in DOMAIN models
  <2>1. index <= Len(models)
    BY <1>1, <1>2 DEF ModelSchemasInv, ModelSchemasTypeOK
  <2> QED BY <1>1, <1>2, <2>1, ModelUnderWay
<1> QED BY <1>2, <1>4, <1>5, RefuseExact DEF Reasons, Subject

\* A step that changes nothing.
LEMMA SameState ==
    ASSUME UNCHANGED vars
    PROVE  /\ input' = input /\ at' = at /\ index' = index /\ stack' = stack /\ inline' = inline
           /\ seen' = seen /\ nodes' = nodes /\ out' = out /\ go' = go /\ Subject' = Subject
           /\ Calls' = Calls /\ CallPairs' = CallPairs
           /\ \A p : (StructNode(p)' <=> StructNode(p)) /\ (Listed(p)' <=> Listed(p))
           /\ \A p : (Waits(p)' <=> Waits(p)) /\ (Twice(p)' <=> Twice(p))
           /\ \A p, place : Ahead(p, place)' <=> Ahead(p, place)
<1>1. /\ input' = input /\ at' = at /\ index' = index /\ stack' = stack /\ inline' = inline
      /\ seen' = seen /\ nodes' = nodes /\ out' = out
  BY DEF vars
<1>2. go' = go /\ Subject' = Subject /\ Calls' = Calls /\ CallPairs' = CallPairs
  BY <1>1 DEF go, Subject, models, Calls, CallPairs
<1>3. \A p : (StructNode(p)' <=> StructNode(p)) /\ (Listed(p)' <=> Listed(p))
  BY <1>1, <1>2 DEF StructNode, Listed
<1>4. \A p : (Waits(p)' <=> Waits(p)) /\ (Twice(p)' <=> Twice(p))
  BY <1>2 DEF Waits, Twice
<1>5. \A p, place : Ahead(p, place)' <=> Ahead(p, place)
  BY <1>1, <1>2, SameTypes DEF Ahead
<1> QED BY <1>1, <1>2, <1>3, <1>4, <1>5

LEMMA SameDeriving ==
    ASSUME Deriving, UNCHANGED vars
    PROVE  Deriving'
<1> USE SameState
<1>1. input' = input
  OBVIOUS
<1>2. Sight'
  <2>1. InSight'
    BY <1>1, SameSight DEF Deriving, Sight, InSight
  <2>2. \A c, d : Within(c, d) => Within(c, d)'
    BY <1>1, SameTypes, SameSight DEF Within
  <2>3. Nested' /\ MarkedOnly'
    BY <2>2 DEF Deriving, Sight, Nested, MarkedOnly
  <2> QED BY <2>1, <2>3 DEF Sight
<1>3. Tagged'
  <2>1. \A q, f : TagFits(q, f)' <=> TagFits(q, f)
    <3>1. \A c, f : CallTagged(c, f)' <=> CallTagged(c, f)
      BY <1>1, SameTypes DEF CallTagged, Deep
    <3>2. \A q, f : NodeTagged(q, f)' <=> NodeTagged(q, f)
      BY <1>1, SameTypes DEF NodeTagged, Deep, Scalar
    <3> QED BY <1>1, <3>1, <3>2, SameTypes DEF TagFits, Deep
  <2>2. FieldsTagged'
    BY <1>1, <2>1, SameTypes DEF Deriving, Tagged, FieldsTagged
  <2>3. \A q : FieldTag(q)' <=> FieldTag(q)
    BY <1>1, <2>1, SameTypes DEF FieldTag
  <2>4. CallsTagged'
    <3>1. UNCHANGED locals
      BY DEF vars, locals
    <3> QED BY <2>3, <3>1, SameUnlistable DEF Deriving, Tagged, CallsTagged
  <2>5. NodesTagged' /\ SeenRooted'
    BY <1>1, <2>3, SameTypes DEF Deriving, Tagged, NodesTagged, SeenRooted
  <2> QED BY <2>2, <2>4, <2>5 DEF Tagged
<1>4. Apart'
  BY <1>1, SameTypes, SameSight DEF Deriving, Apart
<1>5. NotYet'
  BY <1>1, SameTypes, SameSight DEF Deriving, NotYet
<1>6. Whole'
  <2>1. Once'
    BY <1>1, SameTypes DEF Deriving, Whole, Once
  <2>2. \A c, s : Embeds(c, s)' <=> Embeds(c, s)
    BY <1>1, SameTypes DEF Embeds
  <2>3. NeverEnds'
    BY <1>1, <2>2, SameTypes, SameSight DEF Deriving, Whole, NeverEnds
  <2>4. \A p, place : TwoWays(p, place)' <=> TwoWays(p, place)
    <3>1. \A c, m, place : Way(c, m, place)' <=> Way(c, m, place)
      BY <1>1, SameTypes DEF Way
    <3> QED BY <1>1, <3>1, SameTypes DEF TwoWays
  <2>5. \A p, place : TakenAgain(p, place)' <=> TakenAgain(p, place)
    BY <1>1, SameTypes DEF TakenAgain
  <2>6. \A u : NoEndless(u)' <=> NoEndless(u)
    BY <1>1, SameTypes, SameSight DEF NoEndless
  <2>7. DoubleWay'
    BY <1>1, <2>4, <2>5, <2>6, SameTypes, SameSight DEF Deriving, Whole, DoubleWay
  <2> QED BY <2>1, <2>3, <2>7 DEF Whole
<1>7. WrittenSoFar'
  BY <1>1 DEF Deriving, WrittenSoFar, Sayable, RootWritten, Bounded, Says
<1> QED BY <1>2, <1>3, <1>4, <1>5, <1>6, <1>7 DEF Deriving

LEMMA StopExact ==
    ASSUME ExactInv, ReturnSchemas \/ Overflow \/ UNCHANGED vars
    PROVE  ExactInv'
<1>1. FitInv' /\ input' = input /\ index' = index /\ out' = out
  BY StopFits DEF ExactInv, ReturnSchemas, Overflow, vars
<1>2. NamesStored'
  BY <1>1, SameReasons DEF ExactInv, NamesStored
<1>3. CASE ReturnSchemas \/ Overflow
  <2>1. at' \in {"done", "overflow"} /\ (at' = "done" => at = "model")
    BY <1>3 DEF ReturnSchemas, Overflow
  <2> QED BY <1>1, <1>2, <2>1, SameReasons DEF ExactInv, StoredDescribed
<1>4. CASE UNCHANGED vars
  BY <1>1, <1>2, <1>4, SameState, SameDeriving, SameReasons DEF ExactInv, StoredDescribed
<1> QED BY <1>3, <1>4

LEMMA StepExact ==
    ASSUME ExactInv, [ModelSchemasNext]_vars
    PROVE  ExactInv'
<1>1. CASE ReadNames \/ BeginModel \/ StoreModel \/ ReturnSchemas \/ Overflow \/ UNCHANGED vars
  BY <1>1, ReadNamesExact, BeginModelExact, StoreModelExact, StopExact
<1>2. CASE \/ Dereference \/ Refer \/ WriteScalar \/ RefuseType \/ EnterElements
           \/ EndElements \/ EnterStruct \/ CloseStruct \/ MakeNullable
           \/ EndFields \/ SkipField \/ PromoteFields \/ WriteField
  <2>1. CASE Refuse
    BY <1>2, <2>1, DeriverRefusesExact
  <2>2. CASE ~Refuse
    BY <1>2, <2>2, DeriverExact DEF Derives, RefuseType
  <2> QED BY <2>1, <2>2
<1> QED BY <1>1, <1>2 DEF ModelSchemasNext

(***************************************************************************)
(* Whatever the types and the models, SchemasFromModels returns only if   *)
(* every model's type can be said and written to its end, and refuses only*)
(* models without a type, with names that are not valid or not distinct,  *)
(* or of a type that cannot be said.                                       *)
(***************************************************************************)
THEOREM DerivationExact == ModelSchemasSpec => [](at # "overflow" => DerivationIsExact)
<1>1. ASSUME ExactInv PROVE at # "overflow" => DerivationIsExact
  <2>1. ASSUME at = "done", NEW i \in DOMAIN models
        PROVE  ~Indescribable(models[i].type) /\ ~Bottomless(models[i].type)
    <3>1. index > Len(models) /\ index \in Nat /\ input \in Inputs
      BY <1>1, <2>1 DEF ExactInv, FitInv, StoredFit, ModelSchemasInv, ModelSchemasTypeOK
    <3>2. i < index
      BY <2>1, <3>1, InputTypes, LenProperties
    <3> QED BY <1>1, <2>1, <3>2 DEF ExactInv, StoredDescribed
  <2>2. at = "refused" => Reasons
    BY <1>1 DEF ExactInv
  <2> QED BY <2>1, <2>2 DEF DerivationIsExact, Reasons
<1>2. ExactInv /\ [ModelSchemasNext]_vars => ExactInv'
  BY StepExact
<1> QED BY InitExact, <1>1, <1>2, PTL DEF ModelSchemasSpec

-----------------------------------------------------------------------------
(* How deep the calls go.  Each call is labelled with the struct being     *)
(* written, the type it is about and what it does with it: if the model is *)
(* not bottomless no two calls in progress have one label.                  *)

Roles == {"close", "fields", "value"}
Label == [within : Types \cup {NilType}, type : Types, role : Roles]

LabelOf(within, type, role) == [within |-> within, type |-> type, role |-> role]

Labels(frame, l) ==
    /\ frame.do = "close" => l.role = "close" /\ l.type = frame.type /\ l.within = frame.type
    /\ frame.do = "fields" => l.role = "fields" /\ l.type = frame.type
    /\ frame.do = "of" => l.role = "value" /\ l.type = frame.type
    /\ frame.do \in {"nullable", "elements"} => l.role = "value"

Known(l) ==
    /\ l.within \in inline \cup {NilType}
    /\ l.role = "value" => l.type \in ValuesIn(Subject)
    /\ l.role = "fields" => \E u \in Structs(Subject) : l.type \in Parts(u)

\* Within one struct a value is within values that contain it, an embedded struct within those
\* that embed it.
Beneath(l, m) ==
    l.within = m.within =>
        /\ m.role # "close"
        /\ l.role = "value" => m.role = "value" /\ m.type \in Reached(NotStruct(l.type), NotStruct)
        /\ l.role = "fields" /\ m.role = "fields" => m.type \in Reached(Promoted(l.type), Promoted)

LabelsFit(label) ==
    /\ label \in [DOMAIN stack -> Label]
    /\ \A i \in DOMAIN stack : Labels(stack[i], label[i]) /\ Known(label[i])
    /\ \A i, j \in DOMAIN stack : i < j => Beneath(label[i], label[j])

Labelled == \E label : LabelsFit(label)

LEMMA SameBeneath ==
    ASSUME input' = input
    PROVE  \A l, m : Beneath(l, m)' <=> Beneath(l, m)
<1>1. go' = go /\ \A t : Contains(t)' = Contains(t)
  BY SameTypes, SameSight
<1>2. \A t : NotStruct(t)' = NotStruct(t)
  BY <1>1 DEF NotStruct
<1>3. \A t : Promoted(t)' = Promoted(t)
  BY <1>1, SameTypes DEF Promoted, FieldsOf
<1>4. \A t : Reached(NotStruct(t), NotStruct)' = Reached(NotStruct(t), NotStruct)
  BY <1>2 DEF Reached
<1>5. \A t : Reached(Promoted(t), Promoted)' = Reached(Promoted(t), Promoted)
  BY <1>3 DEF Reached
<1> QED BY <1>4, <1>5 DEF Beneath

\* What is within a type is within those around it.
LEMMA FurtherIn ==
    ASSUME input \in Inputs, NEW t \in Types
    PROVE  /\ NotStruct(t) \subseteq Reached(NotStruct(t), NotStruct)
           /\ \A v \in Reached(NotStruct(t), NotStruct) :
                 NotStruct(v) \subseteq Reached(NotStruct(t), NotStruct)
           /\ Promoted(t) \subseteq Reached(Promoted(t), Promoted)
           /\ \A v \in Reached(Promoted(t), Promoted) :
                 Promoted(v) \subseteq Reached(Promoted(t), Promoted)
<1>1. \A v \in Types : NotStruct(v) \subseteq Types
  BY ContainsCases DEF NotStruct
<1>2. \A v \in Types : Promoted(v) \subseteq Types
  BY PromotedTypes
<1>3. /\ NotStruct(t) \subseteq Reached(NotStruct(t), NotStruct)
      /\ \A v \in Reached(NotStruct(t), NotStruct) :
            NotStruct(v) \subseteq Reached(NotStruct(t), NotStruct)
  BY <1>1 DEF Reached
<1>4. /\ Promoted(t) \subseteq Reached(Promoted(t), Promoted)
      /\ \A v \in Reached(Promoted(t), Promoted) :
            Promoted(v) \subseteq Reached(Promoted(t), Promoted)
  BY <1>2 DEF Reached
<1> QED BY <1>3, <1>4

\* Labels for the frames that take the innermost's place.
LEMMA LabelStep ==
    ASSUME stack \in Seq(Frame), stack # <<>>, NEW label, LabelsFit(label), UNCHANGED locals,
           NEW frames \in Seq(Frame), Become(frames), NEW new \in [DOMAIN frames -> Label],
           \A k \in DOMAIN frames : Labels(frames[k], new[k]) /\ Known(new[k])',
           \A i \in DOMAIN stack : i < Len(stack) => label[i].within \in inline' \cup {NilType},
           \A i \in DOMAIN stack, k \in DOMAIN frames : i < Len(stack) => Beneath(label[i], new[k]),
           \A j, k \in DOMAIN frames : j < k => Beneath(new[j], new[k])
    PROVE  Labelled'
<1> DEFINE n == Len(stack)
<1>0. PICK L : L = [i \in DOMAIN stack' |-> IF i < n THEN label[i] ELSE new[i - n + 1]]
  OBVIOUS
<1>1. /\ stack' \in Seq(Frame) /\ n \in Nat \ {0} /\ Len(frames) \in Nat
      /\ Len(stack') = n - 1 + Len(frames)
      /\ \A i \in DOMAIN stack' :
            \/ i < n /\ i \in DOMAIN stack /\ stack'[i] = stack[i]
            \/ \E j \in DOMAIN frames : i = n - 1 + j /\ stack'[i] = frames[j]
  BY BecomeFrames
<1>2. input' = input /\ Subject' = Subject /\ ValuesIn(Subject)' = ValuesIn(Subject)
         /\ Structs(Subject)' = Structs(Subject) /\ \A u : Parts(u)' = Parts(u)
  BY SameSubject, SameTypes
<1>3. DOMAIN stack' \subseteq Nat /\ DOMAIN frames \subseteq Nat \ {0} /\ DOMAIN stack \subseteq Nat
  BY <1>1, LenProperties
<1> HIDE DEF n
<1>4. \A i \in DOMAIN stack' :
         \/ i < n /\ i \in DOMAIN stack /\ stack'[i] = stack[i] /\ L[i] = label[i]
         \/ \E j \in DOMAIN frames : i = n - 1 + j /\ stack'[i] = frames[j] /\ L[i] = new[j] /\ ~(i < n)
  <2> SUFFICES ASSUME NEW i \in DOMAIN stack'
               PROVE  \/ i < n /\ i \in DOMAIN stack /\ stack'[i] = stack[i] /\ L[i] = label[i]
                      \/ \E j \in DOMAIN frames : /\ i = n - 1 + j /\ stack'[i] = frames[j]
                                                  /\ L[i] = new[j] /\ ~(i < n)
    OBVIOUS
  <2>1. L[i] = IF i < n THEN label[i] ELSE new[i - n + 1]
    BY <1>0
  <2>2. CASE i < n /\ i \in DOMAIN stack /\ stack'[i] = stack[i]
    BY <2>1, <2>2
  <2>3. CASE \E j \in DOMAIN frames : i = n - 1 + j /\ stack'[i] = frames[j]
    <3>1. PICK j \in DOMAIN frames : i = n - 1 + j /\ stack'[i] = frames[j]
      BY <2>3
    <3>2. j \in Nat \ {0} /\ n \in Nat \ {0} /\ i \in Nat
      BY <1>1, <1>3
    <3>3. ~(i < n) /\ i - n + 1 = j
      BY <3>1, <3>2
    <3> QED BY <2>1, <3>1, <3>3
  <2> QED BY <1>1, <2>2, <2>3
<1>5. DOMAIN L = DOMAIN stack' /\ L = [i \in DOMAIN L |-> L[i]]
  BY <1>0
<1>6. /\ label \in [DOMAIN stack -> Label]
      /\ \A i \in DOMAIN stack : Labels(stack[i], label[i]) /\ Known(label[i])
      /\ \A i, j \in DOMAIN stack : i < j => Beneath(label[i], label[j])
  BY DEF LabelsFit
<1>7. L \in [DOMAIN stack' -> Label]
  BY <1>4, <1>5, <1>6
<1>8. \A i \in DOMAIN stack' : Labels(stack'[i], L[i])
  BY <1>4, <1>6
<1>9. \A i \in DOMAIN stack' : Known(L[i])'
  <2> SUFFICES ASSUME NEW i \in DOMAIN stack' PROVE Known(L[i])'
    OBVIOUS
  <2>1. CASE i < n /\ i \in DOMAIN stack /\ L[i] = label[i]
    <3>1. Known(label[i]) /\ label[i].within \in inline' \cup {NilType}
      BY <1>6, <2>1 DEF n
    <3> QED BY <1>2, <2>1, <3>1 DEF Known
  <2>2. CASE \E j \in DOMAIN frames : L[i] = new[j]
    BY <2>2
  <2> QED BY <1>4, <2>1, <2>2
<1>10. \A i, j \in DOMAIN stack' : i < j => Beneath(L[i], L[j])
  <2> SUFFICES ASSUME NEW i \in DOMAIN stack', NEW j \in DOMAIN stack', i < j
               PROVE  Beneath(L[i], L[j])
    OBVIOUS
  <2>0. i \in Nat /\ j \in Nat /\ n \in Nat \ {0}
    BY <1>1, <1>3
  <2>1. CASE j < n
    <3>1. i < n
      BY <2>0, <2>1
    <3> QED BY <1>4, <1>6, <2>1, <3>1
  <2>2. CASE ~(j < n) /\ i < n
    BY <1>4, <2>2 DEF n
  <2>3. CASE ~(i < n)
    <3>1. ~(j < n)
      BY <2>0, <2>3
    <3>2. PICK a \in DOMAIN frames : i = n - 1 + a /\ L[i] = new[a]
      BY <1>4, <2>3
    <3>3. PICK b \in DOMAIN frames : j = n - 1 + b /\ L[j] = new[b]
      BY <1>4, <3>1
    <3>4. a \in Nat /\ b \in Nat
      BY <1>3
    <3>5. a < b
      BY <2>0, <3>2, <3>3, <3>4
    <3> QED BY <3>2, <3>3, <3>5
  <2> QED BY <2>1, <2>2, <2>3
<1>11. LabelsFit(L)'
  BY <1>2, <1>7, <1>8, <1>9, <1>10, SameBeneath DEF LabelsFit
<1> QED BY <1>11 DEF Labelled

\* What is said of the innermost call.
LEMMA TopLabel ==
    ASSUME stack \in Seq(Frame), stack # <<>>, NEW label, LabelsFit(label)
    PROVE  \E l \in Label :
              /\ Labels(Top, l) /\ Known(l)
              /\ \A i \in DOMAIN stack : i < Len(stack) =>
                    label[i] \in Label /\ Known(label[i]) /\ Beneath(label[i], l)
<1>1. Len(stack) \in DOMAIN stack
  BY TopType
<1> QED BY <1>1 DEF LabelsFit, Top

\* What a call is about is in sight.
LEMMA CallsKnown ==
    ASSUME Shape', Sight', UNCHANGED locals
    PROVE  \A c \in Calls' :
              /\ c.do = "of" => c.type \in ValuesIn(Subject)
              /\ c.do = "fields" => \E u \in Structs(Subject) : c.type \in Parts(u)
<1>1. input' = input /\ ValuesIn(Subject)' = ValuesIn(Subject) /\ Structs(Subject)' = Structs(Subject)
  BY SameSubject
<1>2. \A c \in Calls' : c.do = "of" => c.type \in ValuesIn(Subject)
  BY <1>1 DEF Sight, InSight
<1>3. ASSUME NEW c \in Calls', c.do = "fields"
      PROVE  \E u \in Structs(Subject) : c.type \in Parts(u)
  <2>1. PICK p, t : p = c.path /\ t = nodes'[p].of
    OBVIOUS
  <2>2. StructNode(p)' /\ c.type \in Parts(t)
    BY <1>1, <1>3, <2>1, SameTypes DEF Shape, FieldsOfParts
  <2>3. t \in Structs(Subject)
    BY <1>1, <2>1, <2>2 DEF Sight, InSight, StructNode
  <2> QED BY <2>2, <2>3
<1> QED BY <1>2, <1>3

LEMMA LabelsGone ==
    ASSUME stack \in Seq(Frame), stack # <<>>, Labelled, UNCHANGED locals, Become(<<>>),
           inline' = inline \/ (Top.do = "close" /\ inline' = inline \ {Top.type})
    PROVE  Labelled'
<1>1. PICK label : LabelsFit(label)
  BY DEF Labelled
<1>2. PICK l \in Label :
         /\ Labels(Top, l) /\ Known(l)
         /\ \A i \in DOMAIN stack : i < Len(stack) =>
               label[i] \in Label /\ Known(label[i]) /\ Beneath(label[i], l)
  BY <1>1, TopLabel
<1>3. \A i \in DOMAIN stack : i < Len(stack) => label[i].within \in inline' \cup {NilType}
  BY <1>2 DEF Labels, Known, Beneath
<1>4. PICK none : none = <<>>
  OBVIOUS
<1>5. none \in Seq(Frame) /\ DOMAIN none = {} /\ none \in [DOMAIN none -> Label]
  <2> HIDE DEF Frame, Label, Roles
  <2>1. none \in Seq(Frame) /\ none \in Seq(Label) /\ Len(none) = 0
    BY <1>4
  <2>2. DOMAIN none = {}
    BY <1>4
  <2> QED BY <1>4, <2>1, <2>2
<1>6. Become(none)
  BY <1>4
<1> QED BY <1>1, <1>3, <1>5, <1>6, LabelStep

LEMMA LabelStays ==
    ASSUME stack \in Seq(Frame), stack # <<>>, NEW label, LabelsFit(label), UNCHANGED locals,
           inline' = inline, NEW f \in Frame, Become(<<f>>), NEW l \in Label,
           Labels(f, l), Known(l)',
           \A i \in DOMAIN stack : i < Len(stack) => Known(label[i]) /\ Beneath(label[i], l)
    PROVE  Labelled'
<1>1. PICK frames, new : frames = <<f>> /\ new = <<l>>
  OBVIOUS
<1>2. /\ frames \in Seq(Frame) /\ DOMAIN frames = {1} /\ frames[1] = f /\ new[1] = l
      /\ new \in [DOMAIN frames -> Label]
  <2> HIDE DEF Frame, Label, Roles
  <2> QED BY <1>1
<1>3. \A i \in DOMAIN stack : i < Len(stack) => label[i].within \in inline' \cup {NilType}
  BY DEF Known
<1>4. Become(frames)
  BY <1>1
<1>5. \A k \in DOMAIN frames : Labels(frames[k], new[k]) /\ Known(new[k])'
  BY <1>2
<1>6. \A i \in DOMAIN stack, k \in DOMAIN frames : i < Len(stack) => Beneath(label[i], new[k])
  BY <1>2
<1>7. \A j, k \in DOMAIN frames : ~(j < k)
  BY <1>2
<1> QED BY <1>2, <1>3, <1>4, <1>5, <1>6, <1>7, LabelStep

LEMMA LabelsGrow ==
    ASSUME stack \in Seq(Frame), stack # <<>>, NEW label, LabelsFit(label), UNCHANGED locals,
           inline \subseteq inline', NEW f \in Frame, NEW g \in Frame, Become(<<f, g>>),
           NEW l \in Label, NEW m \in Label,
           Labels(f, l), Labels(g, m), Known(l)', Known(m)', Beneath(l, m),
           \A i \in DOMAIN stack : i < Len(stack) =>
              Known(label[i]) /\ Beneath(label[i], l) /\ Beneath(label[i], m)
    PROVE  Labelled'
<1>1. PICK frames, new : frames = <<f, g>> /\ new = <<l, m>>
  OBVIOUS
<1>2. /\ frames \in Seq(Frame) /\ DOMAIN frames = {1, 2} /\ new \in [DOMAIN frames -> Label]
      /\ frames[1] = f /\ frames[2] = g /\ new[1] = l /\ new[2] = m
  <2> HIDE DEF Frame, Label, Roles
  <2> QED BY <1>1
<1>3. \A i \in DOMAIN stack : i < Len(stack) => label[i].within \in inline' \cup {NilType}
  BY DEF Known
<1>4. Become(frames)
  BY <1>1
<1>5. \A k \in DOMAIN frames : Labels(frames[k], new[k]) /\ Known(new[k])'
  BY <1>2
<1>6. \A i \in DOMAIN stack, k \in DOMAIN frames : i < Len(stack) => Beneath(label[i], new[k])
  BY <1>2
<1>7. \A j, k \in DOMAIN frames : j < k => j = 1 /\ k = 2
  BY <1>2
<1>8. \A j, k \in DOMAIN frames : j < k => Beneath(new[j], new[k])
  BY <1>2, <1>7
<1> QED BY <1>2, <1>3, <1>4, <1>5, <1>6, <1>8, LabelStep

\* A value of a value is within it, and within what it is within.
LEMMA InnerValue ==
    ASSUME input \in Inputs, NEW l \in Label, l.role = "value", NEW e \in NotStruct(l.type),
           e \in Types, NEW m, m = LabelOf(l.within, e, "value")
    PROVE  /\ m \in Label /\ Beneath(l, m)
           /\ \A k \in Label : Beneath(k, l) => Beneath(k, m)
<1>1. /\ m.within = l.within /\ m.type = e /\ m.role = "value" /\ l.type \in Types
      /\ m \in Label
  BY DEF LabelOf, Label, Roles
<1>2. Beneath(l, m)
  BY <1>1, FurtherIn DEF Beneath
<1>3. ASSUME NEW k \in Label, Beneath(k, l) PROVE Beneath(k, m)
  <2>1. k.type \in Types
    BY DEF Label, Roles
  <2> QED BY <1>1, <1>3, <2>1, FurtherIn DEF Beneath
<1> QED BY <1>1, <1>2, <1>3

\* The fields of an embedded struct.
LEMMA InnerFields ==
    ASSUME input \in Inputs, NEW l \in Label, l.role = "fields", NEW e \in Promoted(l.type),
           e \in Types, NEW m, m = LabelOf(l.within, e, "fields")
    PROVE  /\ m \in Label /\ Beneath(l, m)
           /\ \A k \in Label : Beneath(k, l) => Beneath(k, m)
<1>1. /\ m.within = l.within /\ m.type = e /\ m.role = "fields" /\ l.type \in Types
      /\ m \in Label
  BY DEF LabelOf, Label, Roles
<1>2. Beneath(l, m)
  BY <1>1, FurtherIn DEF Beneath
<1>3. ASSUME NEW k \in Label, Beneath(k, l) PROVE Beneath(k, m)
  <2>1. k.type \in Types
    BY DEF Label, Roles
  <2> QED BY <1>1, <1>3, <2>1, FurtherIn DEF Beneath
<1> QED BY <1>1, <1>2, <1>3

LEMMA StillKnown ==
    ASSUME UNCHANGED locals, inline \subseteq inline'
    PROVE  /\ \A l : Known(l) => Known(l)'
           /\ \A l, m : /\ Known(l) /\ m.within = l.within
                        /\ m.role = "value" /\ m.type \in ValuesIn(Subject)
                        => Known(m)'
           /\ \A l, m : /\ Known(l) /\ m.within = l.within /\ m.role = "fields"
                        /\ \E u \in Structs(Subject) : m.type \in Parts(u)
                        => Known(m)'
<1>1. /\ ValuesIn(Subject)' = ValuesIn(Subject) /\ Structs(Subject)' = Structs(Subject)
      /\ \A u : Parts(u)' = Parts(u)
  BY SameSubject, SameTypes
<1> QED BY <1>1 DEF Known

\* Dereference and EnterElements: on to what the value contains.
LEMMA ValueLabels ==
    ASSUME ModelSchemasInv, Shape, Runs("of"), Labelled, Shape', Sight', UNCHANGED locals,
           inline' = inline, NEW e, e \in NotStruct(Top.type), e \in Types,
           NEW f \in Frame, f.do \in {"nullable", "elements"},
           NEW g \in Frame, g.do = "of", g.type = e, Become(<<f, g>>)
    PROVE  Labelled'
<1>1. PICK label : LabelsFit(label)
  BY DEF Labelled
<1>2. stack \in Seq(Frame) /\ stack # <<>> /\ input \in Inputs /\ Top.do = "of" /\ OnlyInnermost
  BY OfCall
<1>3. PICK l \in Label :
         /\ Labels(Top, l) /\ Known(l)
         /\ \A i \in DOMAIN stack : i < Len(stack) =>
               label[i] \in Label /\ Known(label[i]) /\ Beneath(label[i], l)
  BY <1>1, <1>2, TopLabel
<1>4. l.role = "value" /\ l.type = Top.type
  BY <1>2, <1>3 DEF Labels
<1>5. PICK m : m = LabelOf(l.within, e, "value")
  OBVIOUS
<1>6. m \in Label /\ Beneath(l, m) /\ \A k \in Label : Beneath(k, l) => Beneath(k, m)
  BY <1>2, <1>4, <1>5, InnerValue
<1>7. m.within = l.within /\ m.type = e /\ m.role = "value"
  BY <1>5 DEF LabelOf
<1>8. e \in ValuesIn(Subject)
  <2>1. g \in Calls'
    BY <1>2, GoesOn DEF Goes
  <2> QED BY <2>1, CallsKnown
<1>9. Known(l)' /\ Known(m)'
  BY <1>3, <1>7, <1>8, StillKnown
<1>10. Labels(f, l) /\ Labels(g, m)
  BY <1>4, <1>7 DEF Labels
<1>11. \A i \in DOMAIN stack : i < Len(stack) =>
          Known(label[i]) /\ Beneath(label[i], l) /\ Beneath(label[i], m)
  BY <1>3, <1>6
<1> QED BY <1>1, <1>2, <1>6, <1>9, <1>10, <1>11, LabelsGrow

LEMMA DereferenceLabels ==
    ASSUME ModelSchemasInv, Shape, Dereference, Labelled, Shape', Sight'
    PROVE  Labelled'
<1>1. /\ Runs("of") /\ go[Top.type].kind = "pointer" /\ UNCHANGED locals /\ inline' = inline
      /\ Become(<<NullableFrame(Top.path), OfFrame(go[Top.type].elem, Top.enum, Top.path)>>)
  BY DEF Dereference
<1>2. /\ input \in Inputs /\ Top.type \in Types /\ Top.path \in Seq(Step)
      /\ Top.enum \in {"none", "texts", "integers"}
  BY <1>1, OfCall
<1>3. PICK e, f, g : /\ e = go[Top.type].elem /\ f = NullableFrame(Top.path)
                     /\ g = OfFrame(e, Top.enum, Top.path)
  OBVIOUS
<1>4. e \in Types /\ e \in NotStruct(Top.type)
  BY <1>1, <1>2, <1>3, InputTypes, ContainsCases DEF NotStruct
<1>5. f \in Frame /\ g \in Frame
  <2>1. 1 \in Nat \ {0}
    OBVIOUS
  <2> QED BY <1>2, <1>3, <1>4, <2>1, FrameTypes
<1>6. f.do \in {"nullable", "elements"} /\ g.do = "of" /\ g.type = e /\ Become(<<f, g>>)
  BY <1>1, <1>3 DEF NullableFrame, OfFrame
<1> QED BY <1>1, <1>4, <1>5, <1>6, ValueLabels

LEMMA EnterElementsLabels ==
    ASSUME ModelSchemasInv, Shape, EnterElements, Labelled, Shape', Sight'
    PROVE  Labelled'
<1>1. /\ Runs("of") /\ ~Named(Top.type) /\ go[Top.type].kind \in {"list", "array", "map"}
      /\ UNCHANGED locals /\ inline' = inline
      /\ Become(<<ElementsFrame(Top.enum),
                  OfFrame(go[Top.type].elem, "none",
                          Append(Top.path, IF go[Top.type].kind = "map" THEN Values ELSE Items))>>)
  BY DEF EnterElements, Describes
<1>2. /\ input \in Inputs /\ Top.type \in Types /\ Top.path \in Seq(Step)
      /\ Top.enum \in {"none", "texts", "integers"}
  BY <1>1, OfCall
<1>3. PICK e, f, path : /\ e = go[Top.type].elem /\ f = ElementsFrame(Top.enum)
                        /\ path = Append(Top.path, IF go[Top.type].kind = "map" THEN Values ELSE Items)
  OBVIOUS
<1>4. PICK g : g = OfFrame(e, "none", path)
  OBVIOUS
<1>5. e \in Types /\ e \in NotStruct(Top.type)
  BY <1>1, <1>2, <1>3, InputTypes, ContainsCases DEF NotStruct
<1>6. path \in Seq(Step)
  BY <1>2, <1>3 DEF Step
<1>7. f \in Frame /\ g \in Frame
  <2>1. 1 \in Nat \ {0}
    OBVIOUS
  <2> QED BY <1>2, <1>3, <1>4, <1>5, <1>6, <2>1, FrameTypes
<1>8. f.do \in {"nullable", "elements"} /\ g.do = "of" /\ g.type = e /\ Become(<<f, g>>)
  BY <1>1, <1>3, <1>4 DEF ElementsFrame, OfFrame
<1> QED BY <1>1, <1>5, <1>7, <1>8, ValueLabels

\* A struct that is entered is none of those being written: nothing is within it yet.
LEMMA EnterStructLabels ==
    ASSUME ModelSchemasInv, Shape, EnterStruct, ~Refuse, Labelled, Shape', Sight'
    PROVE  Labelled'
<1>1. /\ Runs("of") /\ UNCHANGED locals /\ Top.type \notin inline
      /\ inline' = inline \cup {Top.type}
      /\ Become(<<CloseFrame(Top.type), FieldsFrame(Top.type, 1, Top.path)>>)
  BY DEF EnterStruct, Describes, Inside
<1>2. /\ stack \in Seq(Frame) /\ stack # <<>> /\ OnlyInnermost
      /\ Top.type \in Types /\ Top.path \in Seq(Step)
  BY <1>1, OfCall
<1>3. PICK label : LabelsFit(label)
  BY DEF Labelled
<1>4. \A i \in DOMAIN stack : i < Len(stack) => label[i] \in Label /\ Known(label[i])
  BY <1>3 DEF LabelsFit
<1>5. PICK t, f, g, l, m : /\ t = Top.type /\ f = CloseFrame(t) /\ g = FieldsFrame(t, 1, Top.path)
                           /\ l = LabelOf(t, t, "close") /\ m = LabelOf(t, t, "fields")
  OBVIOUS
<1>6. /\ f.do = "close" /\ f.type = t /\ g.do = "fields" /\ g.type = t /\ Become(<<f, g>>)
      /\ l.within = t /\ l.type = t /\ l.role = "close"
      /\ m.within = t /\ m.type = t /\ m.role = "fields"
  BY <1>1, <1>5 DEF CloseFrame, FieldsFrame, LabelOf
<1>7. f \in Frame /\ g \in Frame
  BY <1>2, <1>5, FrameTypes
<1>8. l \in Label /\ m \in Label
  BY <1>2, <1>5 DEF LabelOf, Label, Roles
<1>9. Labels(f, l) /\ Labels(g, m) /\ Beneath(l, m)
  BY <1>6 DEF Labels, Beneath
<1>10. \A i \in DOMAIN stack : i < Len(stack) =>
          Known(label[i]) /\ Beneath(label[i], l) /\ Beneath(label[i], m)
  <2>1. t # NilType /\ t \notin inline
    BY <1>1, <1>2, <1>5, ModelSchemasAssumption
  <2> QED BY <1>4, <1>6, <2>1 DEF Known, Beneath
<1>11. Known(l)' /\ Known(m)'
  <2>1. g \in Calls'
    BY <1>2, <1>6, <1>7, GoesOn DEF Goes
  <2>2. \E u \in Structs(Subject) : t \in Parts(u)
    BY <1>1, <1>6, <2>1, CallsKnown
  <2>3. Structs(Subject)' = Structs(Subject) /\ \A u : Parts(u)' = Parts(u)
    BY <1>1, SameSubject, SameTypes
  <2>4. t \in inline'
    BY <1>1, <1>5
  <2> QED BY <1>6, <2>2, <2>3, <2>4 DEF Known
<1>12. inline \subseteq inline'
  BY <1>1
<1> QED BY <1>1, <1>2, <1>3, <1>6, <1>7, <1>8, <1>9, <1>10, <1>11, <1>12, LabelsGrow

\* The calls of fields that take the place of another are within the same struct.
LEMMA FieldsLabels ==
    ASSUME ModelSchemasInv, Shape, SkipField \/ PromoteFields \/ (WriteField /\ ~Refuse),
           Labelled, Shape', Sight'
    PROVE  Labelled'
<1>1. /\ AtField /\ Runs("fields") /\ UNCHANGED locals /\ inline' = inline
  BY DEF SkipField, PromoteFields, WriteField, AtField
<1>2. /\ stack \in Seq(Frame) /\ stack # <<>> /\ OnlyInnermost /\ input \in Inputs
      /\ Top.do = "fields" /\ Top.type \in Types /\ Top.path \in Seq(Step)
      /\ DOMAIN go[Top.type].fields = 1 .. Len(go[Top.type].fields)
      /\ Top.next \in DOMAIN go[Top.type].fields
  BY <1>1, FieldsCall DEF AtField
<1>3. GoOn \in Frame /\ CurrentField \in Field
  BY <1>1, AtFieldType
<1>4. PICK label : LabelsFit(label)
  BY DEF Labelled
<1>5. PICK l \in Label :
         /\ Labels(Top, l) /\ Known(l)
         /\ \A i \in DOMAIN stack : i < Len(stack) =>
               label[i] \in Label /\ Known(label[i]) /\ Beneath(label[i], l)
  BY <1>2, <1>4, TopLabel
<1>6. l.role = "fields" /\ l.type = Top.type
  BY <1>2, <1>5 DEF Labels
<1>7. PICK h, c : h = GoOn /\ c = CurrentField
  OBVIOUS
<1>8. h.do = "fields" /\ h.type = Top.type /\ h \in Frame
  BY <1>3, <1>7 DEF GoOn, FieldsFrame
<1>9. Labels(h, l) /\ Known(l)'
  BY <1>1, <1>5, <1>6, <1>8, StillKnown DEF Labels
<1>10. CASE SkipField
  <2>1. Become(<<h>>)
    BY <1>7, <1>10 DEF SkipField
  <2> QED BY <1>1, <1>2, <1>4, <1>5, <1>8, <1>9, <2>1, LabelStays
<1>11. CASE PromoteFields
  <2>1. Promotes(c) /\ c = go[Top.type].fields[Top.next]
           /\ Become(<<GoOn, FieldsFrame(Inner(CurrentField), 1, Top.path)>>)
    BY <1>7, <1>11 DEF PromoteFields, CurrentField
  <2>2. PICK e, g, m : e = Inner(c) /\ g = FieldsFrame(e, 1, Top.path) /\ m = LabelOf(l.within, e, "fields")
    OBVIOUS
  <2>3. e \in Types /\ e \in Promoted(l.type)
    BY <1>2, <1>6, <2>1, <2>2, PromotedTypes
  <2>4. g.do = "fields" /\ g.type = e /\ g \in Frame
    BY <1>2, <2>2, <2>3, FrameTypes DEF FieldsFrame
  <2>5. Become(<<h, g>>)
    BY <1>7, <2>1, <2>2
  <2>6. m \in Label /\ Beneath(l, m) /\ \A k \in Label : Beneath(k, l) => Beneath(k, m)
    BY <1>2, <1>6, <2>2, <2>3, InnerFields
  <2>7. m.within = l.within /\ m.type = e /\ m.role = "fields"
    BY <2>2 DEF LabelOf
  <2>8. g \in Calls'
    BY <1>2, <1>8, <2>4, <2>5, GoesOn DEF Goes
  <2>9. Known(m)'
    <3>1. \E u \in Structs(Subject) : e \in Parts(u)
      BY <1>1, <2>4, <2>8, CallsKnown
    <3> QED BY <1>1, <1>5, <2>7, <3>1, StillKnown
  <2>10. Labels(g, m)
    BY <2>4, <2>7 DEF Labels
  <2>11. \A i \in DOMAIN stack : i < Len(stack) =>
            Known(label[i]) /\ Beneath(label[i], l) /\ Beneath(label[i], m)
    BY <1>5, <2>6
  <2> QED BY <1>1, <1>2, <1>4, <1>8, <1>9, <2>4, <2>5, <2>6, <2>9, <2>10, <2>11, LabelsGrow
<1>12. CASE WriteField /\ ~Refuse
  <2>1. PICK path : path = Append(Top.path, c.property)
    OBVIOUS
  <2>2. PICK e, g, m : /\ e = c.type /\ g = OfFrame(e, c.enum, path)
                       /\ m = LabelOf(l.within, e, "value")
    OBVIOUS
  <2>3. Become(<<h, g>>)
    BY <1>7, <1>12, <2>1, <2>2 DEF WriteField
  <2>4. e \in Types /\ path \in Seq(Step) /\ c.enum \in {"none", "texts", "integers"}
    BY <1>2, <1>3, <1>7, <2>1, <2>2 DEF Field, Step
  <2>5. g.do = "of" /\ g.type = e /\ g \in Frame
    <3>1. 1 \in Nat \ {0}
      OBVIOUS
    <3>2. g \in Frame
      BY <2>2, <2>4, <3>1, FrameTypes
    <3> QED BY <2>2, <3>2 DEF OfFrame
  <2>6. m \in Label /\ m.within = l.within /\ m.type = e /\ m.role = "value"
    BY <1>5, <2>2, <2>4 DEF LabelOf, Label, Roles
  <2>7. g \in Calls'
    BY <1>2, <1>8, <2>3, <2>5, GoesOn DEF Goes
  <2>8. Known(m)'
    <3>1. e \in ValuesIn(Subject)
      BY <1>1, <2>5, <2>7, CallsKnown
    <3> QED BY <1>1, <1>5, <2>6, <3>1, StillKnown
  <2>9. Labels(g, m)
    BY <2>5, <2>6 DEF Labels
  <2>10. Beneath(l, m)
    BY <1>6, <2>6 DEF Beneath
  <2>11. \A i \in DOMAIN stack : i < Len(stack) =>
            Known(label[i]) /\ Beneath(label[i], l) /\ Beneath(label[i], m)
    BY <1>5, <1>6, <2>6 DEF Beneath
  <2> QED BY <1>1, <1>2, <1>4, <1>5, <1>8, <1>9, <2>3, <2>5, <2>6, <2>8, <2>9, <2>10, <2>11, LabelsGrow
<1> QED BY <1>10, <1>11, <1>12

LEMMA LabelledStays ==
    ASSUME ModelSchemasInv, Shape, Derives, Labelled, Shape', Sight'
    PROVE  Labelled'
<1>1. CASE Dereference
  BY <1>1, DereferenceLabels
<1>2. CASE EnterElements
  BY <1>2, EnterElementsLabels
<1>3. CASE EnterStruct
  BY <1>3, EnterStructLabels DEF Derives
<1>4. CASE SkipField \/ PromoteFields \/ WriteField
  BY <1>4, FieldsLabels DEF Derives
<1>5. CASE Refer \/ WriteScalar \/ EndElements \/ CloseStruct \/ MakeNullable \/ EndFields
  <2>1. /\ Become(<<>>) /\ UNCHANGED locals
        /\ inline' = inline \/ (Top.do = "close" /\ inline' = inline \ {Top.type})
        /\ \E do : Runs(do)
    BY <1>5 DEF Derives, Refer, WriteScalar, EndElements, CloseStruct, MakeNullable, EndFields,
                Describes, Runs, Outside
  <2> QED BY <2>1, AtCall, LabelsGone
<1> QED BY <1>1, <1>2, <1>3, <1>4, <1>5 DEF Derives

LEMMA BeginLabelled ==
    ASSUME ModelSchemasInv, BeginModel, ~Refuse, Shape', Sight'
    PROVE  Labelled'
<1>1. PICK t : t = models[index].type
  OBVIOUS
<1>2. t \in Types /\ input \in Inputs /\ index' = index /\ input' = input /\ NilType \notin Types
  BY <1>1, ModelUnderWay, ModelSchemasAssumption DEF BeginModel
<1>3. Subject' = t
  BY <1>1, <1>2, SameTypes DEF Subject
<1>4. \A c \in Calls' : /\ c.do = "of" => c.type \in ValuesIn(Subject)'
                        /\ c.do = "fields" => \E u \in Structs(Subject)' : c.type \in Parts(u)
  <2>1. \A c \in Calls' : c.do = "of" => c.type \in ValuesIn(Subject)'
    BY DEF Sight, InSight
  <2>2. ASSUME NEW c \in Calls', c.do = "fields"
        PROVE  \E u \in Structs(Subject)' : c.type \in Parts(u)
    <3>1. PICK p, s : p = c.path /\ s = nodes'[p].of
      OBVIOUS
    <3>2. StructNode(p)' /\ c.type \in Parts(s)
      BY <1>2, <2>2, <3>1, SameTypes DEF Shape, FieldsOfParts
    <3>3. s \in Structs(Subject)'
      BY <3>1, <3>2 DEF Sight, InSight, StructNode
    <3> QED BY <3>2, <3>3
  <2> QED BY <2>1, <2>2
<1>5. CASE /\ stack' = <<CloseFrame(t), FieldsFrame(t, 1, <<>>)>> /\ inline' = {t}
  <2>1. PICK f, g, l, m : /\ f = CloseFrame(t) /\ g = FieldsFrame(t, 1, <<>>)
                          /\ l = LabelOf(t, t, "close") /\ m = LabelOf(t, t, "fields")
    OBVIOUS
  <2>2. /\ f.do = "close" /\ f.type = t /\ g.do = "fields" /\ g.type = t
        /\ l.within = t /\ l.type = t /\ l.role = "close"
        /\ m.within = t /\ m.type = t /\ m.role = "fields"
    BY <2>1 DEF CloseFrame, FieldsFrame, LabelOf
  <2>3. l \in Label /\ m \in Label
    BY <1>2, <2>1 DEF LabelOf, Label, Roles
  <2>4. stack' = <<f, g>>
    BY <1>5, <2>1
  <2>5. DOMAIN stack' = {1, 2} /\ stack'[1] = f /\ stack'[2] = g
    BY <2>4
  <2>6. \E u \in Structs(Subject)' : t \in Parts(u)
    BY <1>4, <2>2, <2>5 DEF Calls
  <2>7. Known(l)' /\ Known(m)'
    <3>1. t \in inline'
      BY <1>5
    <3>2. \A u : Parts(u)' = Parts(u)
      BY <1>2, SameTypes
    <3> QED BY <2>2, <2>6, <3>1, <3>2 DEF Known
  <2>8. Labels(f, l) /\ Labels(g, m) /\ Beneath(l, m)'
    BY <2>2 DEF Labels, Beneath
  <2>9. PICK label : label = <<l, m>>
    OBVIOUS
  <2>10. label \in [DOMAIN stack' -> Label] /\ label[1] = l /\ label[2] = m
    <3> HIDE DEF Label, Roles
    <3> QED BY <2>3, <2>5, <2>9
  <2>11. \A i, j \in DOMAIN stack' : i < j => i = 1 /\ j = 2
    BY <2>5
  <2>12. LabelsFit(label)'
    BY <2>5, <2>7, <2>8, <2>10, <2>11 DEF LabelsFit
  <2> QED BY <2>12 DEF Labelled
<1>6. CASE stack' = <<OfFrame(t, "none", <<>>)>>
  <2>1. PICK f, l : f = OfFrame(t, "none", <<>>) /\ l = LabelOf(NilType, t, "value")
    OBVIOUS
  <2>2. f.do = "of" /\ f.type = t /\ l.within = NilType /\ l.type = t /\ l.role = "value"
    BY <2>1 DEF OfFrame, LabelOf
  <2>3. l \in Label
    BY <1>2, <2>1 DEF LabelOf, Label, Roles
  <2>4. stack' = <<f>>
    BY <1>6, <2>1
  <2>5. DOMAIN stack' = {1} /\ stack'[1] = f
    BY <2>4
  <2>6. t \in ValuesIn(Subject)'
    BY <1>4, <2>2, <2>5 DEF Calls
  <2>7. Known(l)' /\ Labels(f, l)
    BY <2>2, <2>6 DEF Known, Labels
  <2>8. PICK label : label = <<l>>
    OBVIOUS
  <2>9. label \in [DOMAIN stack' -> Label] /\ label[1] = l
    <3> HIDE DEF Label, Roles
    <3> QED BY <2>3, <2>5, <2>8
  <2>10. \A i, j \in DOMAIN stack' : ~(i < j)
    BY <2>5
  <2>11. LabelsFit(label)'
    BY <2>5, <2>7, <2>9, <2>10 DEF LabelsFit
  <2> QED BY <2>11 DEF Labelled
<1> QED BY <1>1, <1>5, <1>6 DEF BeginModel

\* No two labels of calls in progress are equal, unless the type is bottomless.
LEMMA LabelsDiffer ==
    ASSUME input \in Inputs, NEW label, LabelsFit(label), NEW i \in DOMAIN stack,
           NEW j \in DOMAIN stack, i < j, label[i] = label[j]
    PROVE  Bottomless(Subject)
<1>1. label[i] \in Label /\ Known(label[i]) /\ Beneath(label[i], label[i])
  BY DEF LabelsFit
<1>2. PICK l : l = label[i]
  OBVIOUS
<1>3. l.role \in Roles /\ l.role # "close"
  BY <1>1, <1>2 DEF Beneath, Label, Roles
<1>4. CASE l.role = "value"
  BY <1>1, <1>2, <1>4 DEF Beneath, Known, Bottomless, EmbedsItself, Circular
<1>5. CASE l.role = "fields"
  BY <1>1, <1>2, <1>5 DEF Beneath, Known, Bottomless, EmbedsItself, Circular
<1> QED BY <1>3, <1>4, <1>5 DEF Roles

\* So many labels there are.
LEMMA SoManyLabels ==
    ASSUME IsFiniteSet(Types)
    PROVE  LET pairs == (Types \cup {NilType}) \X (Types \X Roles)
           IN  /\ IsFiniteSet(pairs) /\ Cardinality(Types) \in Nat
               /\ Cardinality(pairs) = (Cardinality(Types) + 1) * (Cardinality(Types) * 3)
<1>1. IsFiniteSet(Roles) /\ Cardinality(Roles) = 3
  <2>1. IsFiniteSet({"close"}) /\ Cardinality({"close"}) = 1
    BY FS_Singleton
  <2>2. "fields" \notin {"close"} /\ "value" \notin {"close", "fields"}
    OBVIOUS
  <2>3. IsFiniteSet({"close"} \cup {"fields"}) /\ Cardinality({"close"} \cup {"fields"}) = 1 + 1
    BY <2>1, <2>2, FS_AddElement
  <2>4. {"close"} \cup {"fields"} = {"close", "fields"}
    OBVIOUS
  <2>5. IsFiniteSet({"close", "fields"} \cup {"value"}) /\ Cardinality({"close", "fields"} \cup {"value"}) = 2 + 1
    BY <2>2, <2>3, <2>4, FS_AddElement
  <2>6. {"close", "fields"} \cup {"value"} = Roles
    BY DEF Roles
  <2> QED BY <2>5, <2>6
<1>2. IsFiniteSet(Types \cup {NilType}) /\ Cardinality(Types \cup {NilType}) = Cardinality(Types) + 1
  BY FS_AddElement, ModelSchemasAssumption
<1>3. IsFiniteSet(Types \X Roles) /\ Cardinality(Types \X Roles) = Cardinality(Types) * 3
  BY <1>1, FS_Product
<1>4. /\ IsFiniteSet((Types \cup {NilType}) \X (Types \X Roles))
      /\ Cardinality((Types \cup {NilType}) \X (Types \X Roles))
            = Cardinality(Types \cup {NilType}) * Cardinality(Types \X Roles)
  BY <1>2, <1>3, FS_Product
<1> QED BY <1>2, <1>3, <1>4, FS_CardinalityType

\* What a goroutine's stack has to hold for every type that is not bottomless.
Enough == IsFiniteSet(Types) /\ MaxDepth >= (Cardinality(Types) + 1) * (Cardinality(Types) * 3)

LEMMA TooDeep ==
    ASSUME Enough, ModelSchemasInv, Labelled, Len(stack) > MaxDepth
    PROVE  Bottomless(Subject)
<1> DEFINE pairs == (Types \cup {NilType}) \X (Types \X Roles)
<1> DEFINE n == Cardinality(pairs)
<1>1. IsFiniteSet(pairs) /\ n \in Nat /\ n <= MaxDepth /\ MaxDepth \in Nat
  <2>1. IsFiniteSet(pairs) /\ n = (Cardinality(Types) + 1) * (Cardinality(Types) * 3)
    BY SoManyLabels DEF Enough
  <2>2. n \in Nat
    BY <2>1, FS_CardinalityType
  <2> QED BY <2>1, <2>2, ModelSchemasAssumption DEF Enough
<1>2. stack \in Seq(Frame) /\ input \in Inputs
  BY DEF ModelSchemasInv, ModelSchemasTypeOK
<1>3. DOMAIN stack = 1 .. Len(stack) /\ Len(stack) \in Nat
  BY <1>2, LenProperties
<1>4. IsFiniteSet(DOMAIN stack) /\ Cardinality(DOMAIN stack) = Len(stack)
  <2>1. 1 \in Int /\ Len(stack) \in Int /\ ~(1 > Len(stack)) /\ Len(stack) - 1 + 1 = Len(stack)
    BY <1>1, <1>3
  <2> QED BY <1>3, <2>1, FS_Interval
<1>5. PICK label : LabelsFit(label)
  BY DEF Labelled
<1>6. PICK f : f = [i \in DOMAIN stack |-> <<label[i].within, <<label[i].type, label[i].role>>>>]
  OBVIOUS
<1>7. \A i \in DOMAIN stack : label[i] \in Label
  BY <1>5 DEF LabelsFit
<1>8. f \in [DOMAIN stack -> pairs]
  BY <1>6, <1>7 DEF Label, Roles
<1>9. PICK i \in DOMAIN stack, j \in DOMAIN stack : i # j /\ f[i] = f[j]
  <2> HIDE DEF pairs
  <2>1. n < Len(stack)
    BY <1>1, <1>3
  <2> QED BY <1>1, <1>4, <1>8, <2>1, FS_PigeonHole
<1>10. label[i] = label[j]
  <2>1. /\ label[i].within = label[j].within /\ label[i].type = label[j].type
        /\ label[i].role = label[j].role
    BY <1>6, <1>9
  <2> QED BY <1>7, <2>1 DEF Label, Roles
<1>11. i < j \/ j < i
  BY <1>3, <1>9
<1> QED BY <1>2, <1>5, <1>10, <1>11, LabelsDiffer

DepthInv ==
    /\ ExactInv
    /\ at = "derive" => Labelled
    /\ at = "overflow" => \E i \in DOMAIN models : Bottomless(models[i].type)

LEMMA StepDepth ==
    ASSUME Enough, DepthInv, [ModelSchemasNext]_vars
    PROVE  DepthInv'
<1>1. ExactInv /\ ExactInv'
  BY StepExact DEF DepthInv
<1>2. ASSUME at' = "derive" PROVE Shape' /\ Sight' /\ ModelSchemasInv /\ ModelSchemasInv'
  BY <1>1, <1>2 DEF ExactInv, FitInv, ShapeInv, Deriving
<1>3. CASE at' = "derive"
  <2>1. CASE BeginModel
    <3>1. ~Refuse
      BY <1>3 DEF Refuse
    <3> QED BY <1>1, <1>2, <1>3, <2>1, <3>1, BeginLabelled DEF DepthInv
  <2>2. CASE /\ \/ Dereference \/ Refer \/ WriteScalar \/ RefuseType \/ EnterElements
                \/ EndElements \/ EnterStruct \/ CloseStruct \/ MakeNullable
                \/ EndFields \/ SkipField \/ PromoteFields \/ WriteField
    <3>1. Derives /\ at = "derive"
      BY <1>3, <2>2 DEF Refuse, RefuseType, Derives, Dereference, Refer, WriteScalar,
          EnterElements, EndElements, EnterStruct, CloseStruct, MakeNullable, EndFields,
          SkipField, PromoteFields, WriteField, AtField, Describes, Runs
    <3>2. Shape /\ Labelled
      BY <1>1, <3>1 DEF DepthInv, ExactInv, FitInv, ShapeInv
    <3>3. Labelled'
      BY <1>2, <1>3, <3>1, <3>2, LabelledStays
    <3> QED BY <1>1, <1>3, <3>3 DEF DepthInv
  <2>3. CASE UNCHANGED vars
    <3>1. Labelled /\ at = "derive" /\ input' = input
      BY <1>3, <2>3, SameState DEF DepthInv
    <3>2. PICK label : LabelsFit(label)
      BY <3>1 DEF Labelled
    <3>3. \A l : Known(l) => Known(l)'
      BY <2>3, <3>1, SameState, SameSight, SameTypes DEF Known
    <3>4. LabelsFit(label)'
      BY <2>3, <3>1, <3>2, <3>3, SameState, SameBeneath DEF LabelsFit
    <3> QED BY <1>1, <1>3, <3>4 DEF DepthInv, Labelled
  <2>4. ~ReadNames /\ ~StoreModel /\ ~ReturnSchemas /\ ~Overflow
    BY <1>3 DEF ReadNames, StoreModel, ReturnSchemas, Overflow, Refuse
  <2> QED BY <2>1, <2>2, <2>3, <2>4 DEF ModelSchemasNext
<1>4. CASE at' = "overflow"
  <2>1. CASE Overflow
    <3>1. at = "derive" /\ Len(stack) > MaxDepth /\ input' = input /\ Labelled
      BY <2>1 DEF Overflow, DepthInv
    <3>2. ModelSchemasInv
      BY <1>1 DEF ExactInv, FitInv
    <3>3. Bottomless(Subject)
      BY <3>1, <3>2, TooDeep
    <3>4. index \in DOMAIN models
      <4>1. index <= Len(models)
        BY <3>1, <3>2 DEF ModelSchemasInv, ModelSchemasTypeOK
      <4> QED BY <3>1, <3>2, <4>1, ModelUnderWay
    <3>5. (\E i \in DOMAIN models : Bottomless(models[i].type))'
      BY <3>1, <3>3, <3>4, SameReasons DEF Subject
    <3> QED BY <1>1, <1>4, <3>5 DEF DepthInv
  <2>2. CASE ~Overflow
    <3>1. UNCHANGED vars
      BY <1>4, <2>2 DEF ModelSchemasNext, ReadNames, BeginModel, StoreModel, ReturnSchemas,
          Refuse, RefuseType, Dereference, Refer, WriteScalar, EnterElements, EndElements,
          EnterStruct, CloseStruct, MakeNullable, EndFields, SkipField, PromoteFields,
          WriteField, AtField, Describes, Runs, locals
    <3>2. at = "overflow" /\ input' = input
      BY <1>4, <3>1, SameState
    <3> QED BY <1>1, <1>4, <3>2, SameReasons DEF DepthInv
  <2> QED BY <2>1, <2>2
<1>5. CASE at' \notin {"derive", "overflow"}
  BY <1>1, <1>5 DEF DepthInv
<1> QED BY <1>3, <1>4, <1>5

(***************************************************************************)
(* A recursion that a goroutine's stack does not hold is that of a type   *)
(* without a bottom, as long as the stack holds the calls that any other  *)
(* type needs: no more than three for each pair of types.  Then the       *)
(* derivation is exact in every outcome.                                   *)
(***************************************************************************)
THEOREM DerivationExactThroughout ==
    ASSUME IsFiniteSet(Types), MaxDepth >= (Cardinality(Types) + 1) * (Cardinality(Types) * 3)
    PROVE  ModelSchemasSpec => []DerivationIsExact
<1>1. Enough
  BY DEF Enough
<1>2. ModelSchemasInit => DepthInv
  BY InitExact DEF DepthInv, ModelSchemasInit
<1>3. DepthInv /\ [ModelSchemasNext]_vars => DepthInv'
  BY <1>1, StepDepth
<1>4. DepthInv => (at = "overflow" => \E i \in DOMAIN models : Bottomless(models[i].type))
  BY DEF DepthInv
<1>5. (at # "overflow" => DerivationIsExact) /\ (at = "overflow" => \E i \in DOMAIN models : Bottomless(models[i].type))
         => DerivationIsExact
  BY DEF DerivationIsExact, Bottomless
<1> QED BY <1>2, <1>3, <1>4, <1>5, DerivationExact, PTL DEF ModelSchemasSpec
=============================================================================
