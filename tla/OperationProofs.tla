-------------------------- MODULE OperationProofs --------------------------
(***************************************************************************)
(* The making of an operation implements the resolution of references and *)
(* the search of schemas, so what is proved of those holds in it; and the *)
(* parameters of an accepted operation fit its path.                      *)
(***************************************************************************)
EXTENDS Operation, ResolutionProofs

\* The inputs as OperationAssumption has them.
LEMMA InputsAreTyped ==
    ASSUME input \in Inputs
    PROVE  /\ input.path \subseteq Texts
           /\ input.parameters \in Seq(Declarations \cup (Reference \ SchemeNames))
           /\ Given = 1 .. Len(input.parameters)
           /\ Len(input.parameters) \in Nat
           /\ \A i \in Given : input.parameters[i] \in Declarations \cup (Reference \ SchemeNames)
           /\ input.security \subseteq Requirement
           /\ input.encodings \subseteq Properties
<1>1. /\ input.path \subseteq Texts
      /\ input.parameters \in Seq(Declarations \cup (Reference \ SchemeNames))
      /\ input.security \subseteq Requirement
      /\ input.encodings \subseteq Properties
  BY OperationAssumption
<1> QED
  BY <1>1 DEF Given

-----------------------------------------------------------------------------
(* Its steps are steps of the two modules it is composed of, or stutter. *)

\* What is asked of them is what they can be asked.
Asking == input \in Inputs /\ components \in [Names -> Values]

LEMMA AskingInit == OperationInit => Asking
BY DEF OperationInit, ReferencesInit, Asking

LEMMA ReferencesStep ==
    ASSUME Asking, [OperationNext]_operationVars
    PROVE  [ReferencesNext]_referencesVars
<1>1. CASE AskReference
  <2>1. input.parameters[next] \in Values
    BY <1>1, InputsAreTyped, OperationAssumption
       DEF AskReference, Collecting, IsInline, Asking, Reference, Values
  <2> QED
    BY <1>1, <2>1 DEF AskReference, ReferencesNext
<1>2. ASSUME NEW r \in Requirement, AskScheme(r) PROVE ReferencesNext
  <2>1. r.scheme \in Names
    BY <1>2, OperationAssumption DEF AskScheme, Requirement
  <2> QED
    BY <1>2, <2>1 DEF AskScheme, ReferencesNext, Asking
<1>3. CASE Recur
  BY <1>3 DEF Recur, ReferencesNext
<1>4. CASE UNCHANGED operationVars
  BY <1>4 DEF operationVars
<1> QED
  BY <1>1, <1>2, <1>3, <1>4
     DEF OperationNext, RefuseWebhook, TakeWebhook, TakeInline, NoteReference, Merge,
         ValidateParameters, MissScheme, NoteScheme, ValidateComponents, AskProperty,
         NoteProperty, Finish

LEMMA EncodingsStep ==
    ASSUME Asking, [OperationNext]_operationVars
    PROVE  [EncodingsNext]_encodingsVars
<1>1. ASSUME NEW p \in Properties, AskProperty(p) PROVE EncodingsNext
  BY <1>1 DEF AskProperty, EncodingsNext
<1>2. CASE Recur
  BY <1>2 DEF Recur, EncodingsNext
<1>3. CASE UNCHANGED operationVars
  BY <1>3 DEF operationVars
<1> QED
  BY <1>1, <1>2, <1>3
     DEF OperationNext, RefuseWebhook, TakeWebhook, TakeInline, AskReference, NoteReference,
         Merge, ValidateParameters, MissScheme, AskScheme, NoteScheme, ValidateComponents,
         NoteProperty, Finish

LEMMA AskingHolds == Asking /\ [OperationNext]_operationVars => Asking'
<1> SUFFICES ASSUME Asking, [OperationNext]_operationVars PROVE Asking'
  OBVIOUS
<1>1. UNCHANGED input
  BY DEF operationVars, OperationNext, RefuseWebhook, TakeWebhook, TakeInline, AskReference,
         NoteReference, Merge, ValidateParameters, MissScheme, AskScheme, NoteScheme,
         ValidateComponents, AskProperty, NoteProperty, Finish
<1>2. UNCHANGED components
  BY ReferencesStep DEF ReferencesNext, referencesVars, Resolve, SettleKnown, SettleUnknown,
                        Follow, Begin
<1> QED
  BY <1>1, <1>2 DEF Asking

LEMMA AlwaysAsking == OperationSpec => []Asking
BY AskingInit, AskingHolds, PTL DEF OperationSpec

(***************************************************************************)
(* The making of an operation resolves references as References has it ...*)
(***************************************************************************)
THEOREM ImplementsReferences == OperationSpec => ReferencesSpec
<1>1. OperationInit => ReferencesInit
  BY DEF OperationInit
<1>2. Asking /\ [OperationNext]_operationVars => [ReferencesNext]_referencesVars
  BY ReferencesStep
<1> QED
  BY <1>1, <1>2, AlwaysAsking, PTL DEF OperationSpec, ReferencesSpec

(***************************************************************************)
(* ... and searches schemas as Encodings has it.                          *)
(***************************************************************************)
THEOREM ImplementsEncodings == OperationSpec => EncodingsSpec
<1>1. OperationInit => EncodingsInit
  BY DEF OperationInit
<1>2. Asking /\ [OperationNext]_operationVars => [EncodingsNext]_encodingsVars
  BY EncodingsStep
<1> QED
  BY <1>1, <1>2, AlwaysAsking, PTL DEF OperationSpec, EncodingsSpec

(***************************************************************************)
(* Every reference of a parameter or a scheme that generation asks for is *)
(* resolved to the one concrete component it leads to, ...                *)
(***************************************************************************)
THEOREM OperationResolves == OperationSpec => []ResolutionIsExact
BY ImplementsReferences, Resolves, PTL

(***************************************************************************)
(* ... in as many calls as there are names and one more, ...              *)
(***************************************************************************)
THEOREM OperationProgresses == OperationSpec => ResolutionProgresses
BY ImplementsReferences, EndsEveryResolution, PTL

(***************************************************************************)
(* ... and no encoding of a body is reported that its schema declares.    *)
(***************************************************************************)
THEOREM OperationSearches == OperationSpec => []WalkIsSound
BY ImplementsEncodings, SearchIsSound, PTL

-----------------------------------------------------------------------------
(* Types. *)

LEMMA IdentityIsKey ==
    ASSUME NEW d \in Declarations
    PROVE  /\ Identity(d) \in Keys
           /\ d.in = "path" => Identity(d) = PathKey(d.name)
           /\ d.in # "path" => \A name : Identity(d) # PathKey(name)
           /\ d.in = "path" <=> InPath(Identity(d))
           /\ d.name \in Texts
<1>1. d.in \in Locations /\ d.name \in Texts /\ Lower[d.name] \in Texts
  BY OperationAssumption DEF Declarations
<1> QED
  BY <1>1 DEF Identity, Keys, PathKey, Locations, InPath, NoKey

LEMMA NoKeyIsNone == NoKey \notin Keys
BY DEF NoKey, Keys

(***************************************************************************)
(* Where the making of an operation is, with what its phases rely on.     *)
(***************************************************************************)
Located ==
    /\ input \in Inputs
    /\ phase = "resolve" =>
          next \in Given /\ ~IsInline(next) /\ origin = input.parameters[next]
    /\ phase = "register" => input.kind # "route"

TypeInv == OperationTypeOK /\ Located

LEMMA TypeInit == OperationInit => TypeInv
<1> SUFFICES ASSUME OperationInit PROVE TypeInv
  OBVIOUS
<1>1. Located
  BY DEF OperationInit, Located
<1>2. ReferencesTypeOK /\ EncodingsTypeOK
  BY InitHolds, EncodingsInitHolds DEF OperationInit, ReferencesInv, EncodingsInv
<1>3. phase \in Phases
  BY DEF OperationInit, Phases
<1>4. next \in 1 .. (Len(input.parameters) + 1)
  BY InputsAreTyped DEF OperationInit
<1>5. keys \in [Given -> Keys \cup {NoKey}]
  BY DEF OperationInit
<1>6. encodings \subseteq Properties /\ security \cup asked \subseteq Requirement
  BY InputsAreTyped DEF OperationInit
<1>7. inline \subseteq Given /\ named \subseteq Given /\ result \subseteq Entries
  BY DEF OperationInit
<1> QED
  BY <1>1, <1>2, <1>3, <1>4, <1>5, <1>6, <1>7 DEF TypeInv, OperationTypeOK

LEMMA TypeStep ==
    ASSUME TypeInv, ReferencesInv, EncodingsInv, [OperationNext]_operationVars
    PROVE  TypeInv'
<1> USE DEF TypeInv, OperationTypeOK
<1>0. /\ input.parameters \in Seq(Declarations \cup (Reference \ SchemeNames))
      /\ Given = 1 .. Len(input.parameters)
      /\ Len(input.parameters) \in Nat
      /\ input.path \subseteq Texts
      /\ \A i \in Given : input.parameters[i] \in Declarations \cup (Reference \ SchemeNames)
  BY InputsAreTyped DEF Located
<1>a. Asking
  BY DEF Asking, Located, ReferencesTypeOK
<1>b. ReferencesTypeOK' /\ EncodingsTypeOK'
  BY <1>a, ReferencesStep, EncodingsStep, StepHolds, EncodingsStepHolds
     DEF ReferencesInv, EncodingsInv
<1>1. CASE RefuseWebhook \/ ValidateParameters \/ ValidateComponents \/ Finish \/ NoteProperty
  BY <1>b, <1>1 DEF RefuseWebhook, ValidateParameters, ValidateComponents, Finish, NoteProperty,
     Phases, Located, Given, Entries, merging, checking
<1>2. CASE TakeWebhook
  <2>1. result' \subseteq Entries
    BY <1>2 DEF TakeWebhook, Loop, Entries
  <2> QED
    BY <1>b, <1>2, <2>1 DEF TakeWebhook, Phases, Located, Given, Entries, checking
<1>3. CASE TakeInline
  <2>1. next' \in 1 .. (Len(input.parameters) + 1) /\ inline' \subseteq Given
    BY <1>0, <1>3 DEF TakeInline, Collecting
  <2> QED
    BY <1>b, <1>3, <2>1 DEF TakeInline, Collecting, Located, Given, Entries, checking
<1>4. CASE AskReference
  BY <1>b, <1>4 DEF AskReference, Collecting, Located, Given, Entries, merging, checking, Phases, Begin,
     IsInline
<1>5. CASE NoteReference
  <2>1. KnownKey \in Keys \cup {NoKey}
    BY IdentityIsKey DEF KnownKey
  <2>2. next \in Given
    BY <1>5 DEF NoteReference, Located
  <2>3. next' \in 1 .. (Len(input.parameters) + 1) /\ named' \subseteq Given
    BY <1>0, <1>5, <2>2 DEF NoteReference
  <2>4. keys' \in [Given -> Keys \cup {NoKey}]
    BY <1>5, <2>1 DEF NoteReference
  <2> QED
    BY <1>b, <1>5, <2>3, <2>4 DEF NoteReference, Located, Given, Entries, checking, Phases
<1>6. CASE Merge
  <2>1. PathEntries \subseteq Entries
    <3>1. ASSUME NEW name \in input.path PROVE PathEntry(name) \subseteq Entries
      <4>1. {"path"} \X InlineOf(PathKey(name)) \subseteq Entries
        BY DEF InlineOf, Entries
      <4>2. {"path"} \X NamedOf(PathKey(name)) \subseteq Entries
        BY DEF NamedOf, Entries
      <4>3. <<"inferred", name>> \in Entries
        BY <1>0, <3>1 DEF Entries
      <4> QED
        BY <4>1, <4>2, <4>3 DEF PathEntry
    <3> QED
      BY <3>1 DEF PathEntries
  <2>2. InlineEntries \subseteq Entries
    BY DEF InlineEntries, Entries
  <2>3. ReferenceEntries \subseteq Entries
    BY DEF ReferenceEntries, Entries
  <2>4. result' \subseteq Entries
    BY <1>6, <2>1, <2>2, <2>3 DEF Merge
  <2> QED
    BY <1>b, <1>6, <2>4 DEF Merge, Located, Given, Entries, checking, Phases
<1>7. ASSUME NEW r \in Requirement, MissScheme(r) \/ AskScheme(r) PROVE TypeInv'
  BY <1>b, <1>7 DEF MissScheme, AskScheme, Located, Given, Entries, merging, Phases
<1>8. CASE NoteScheme
  BY <1>b, <1>8 DEF NoteScheme, Located, Given, Entries, merging, Phases
<1>9. ASSUME NEW p \in Properties, AskProperty(p) PROVE TypeInv'
  BY <1>b, <1>9 DEF AskProperty, Located, Given, Entries, merging, Phases
<1>10. CASE Recur /\ UNCHANGED <<input, phase, merging, checking, issues>>
  <2>1. UNCHANGED origin
    BY <1>10 DEF Recur, Resolve, SettleKnown, SettleUnknown, Follow, referencesVars, resolution
  <2> QED
    BY <1>b, <1>10, <2>1 DEF Located, Given, Entries, IsInline, merging, checking
<1>11. CASE UNCHANGED operationVars
  BY <1>b, <1>11 DEF operationVars, referencesVars, resolution, Located, Given, Entries, IsInline, merging,
     checking
<1> QED
  BY <1>1, <1>2, <1>3, <1>4, <1>5, <1>6, <1>7, <1>8, <1>9, <1>10, <1>11 DEF OperationNext

LEMMA PartsHold == OperationSpec => [](ReferencesInv /\ EncodingsInv)
BY ImplementsReferences, ImplementsEncodings, InvariantHolds, EncodingsInvariantHolds, PTL

LEMMA TypeHolds == OperationSpec => []TypeInv
<1>1. TypeInv /\ (ReferencesInv /\ EncodingsInv) /\ [OperationNext]_operationVars => TypeInv'
  BY TypeStep
<1> QED
  BY <1>1, TypeInit, PartsHold, PTL DEF OperationSpec

(***************************************************************************)
(* Type correctness.                                                       *)
(***************************************************************************)
THEOREM OperationTypeCorrect == OperationSpec => []OperationTypeOK
<1>1. TypeInv => OperationTypeOK
  BY DEF TypeInv
<1> QED
  BY <1>1, TypeHolds, PTL

-----------------------------------------------------------------------------
(* What a parameter declares. *)

Declared(i) == Declares(input.parameters[i])

LEMMA InlineDeclares ==
    ASSUME TypeInv, NEW i \in Given, IsInline(i)
    PROVE  Declared(i) = {Identity(input.parameters[i])}
<1> DEFINE d == input.parameters[i]
<1>1. d \in Declarations /\ d \notin Names
  BY OperationAssumption DEF IsInline, Reference
<1>2. {} \in Trails(d) /\ Along(d, {}) = {d}
  BY <1>1 DEF Trails, Along
<1>3. \A c : LeadsTo(d, c) <=> c = d
  <2>1. \A c : LeadsTo(d, c) => c = d
    BY <1>2 DEF LeadsTo
  <2>2. LeadsTo(d, d)
    BY DEF LeadsTo, Along
  <2> QED
    BY <2>1, <2>2
<1> QED
  BY <1>1, <1>3 DEF Declared, Declares

LEMMA ReferenceDeclares ==
    ASSUME TypeInv, NEW i \in Given, ~IsInline(i)
    PROVE  Declared(i) = {Identity(d) : d \in Ends(input.parameters[i]) \cap Declarations}
BY OperationAssumption DEF IsInline, Declared, Declares, Ends

LEMMA NotedDeclares ==
    ASSUME TypeInv, ReferencesInv, NoteReference
    PROVE  Declared(next) = {KnownKey} \ {NoKey}
<1>1. next \in Given /\ ~IsInline(next) /\ origin = input.parameters[next]
  BY DEF NoteReference, TypeInv, Located
<1>2. verdict \in {"known", "unknown"}
  BY DEF NoteReference, Running, TypeInv, OperationTypeOK, ReferencesTypeOK
<1>3. ResolutionIsExact
  BY InvIsExact
<1>4. Declared(next) = {Identity(d) : d \in Ends(origin) \cap Declarations}
  BY <1>1, ReferenceDeclares
<1>5. CASE verdict = "known" /\ current \in Declarations
  BY <1>3, <1>4, <1>5, IdentityIsKey, NoKeyIsNone DEF ResolutionIsExact, KnownKey
<1>6. CASE verdict = "known" /\ current \notin Declarations
  BY <1>3, <1>4, <1>6 DEF ResolutionIsExact, KnownKey
<1>7. CASE verdict = "unknown"
  BY <1>3, <1>4, <1>7 DEF ResolutionIsExact, KnownKey
<1> QED
  BY <1>2, <1>5, <1>6, <1>7

(***************************************************************************)
(* The parameters already looked at, sorted: the inline ones that came    *)
(* first with their key, the references likewise, with the key that the   *)
(* component they lead to declares.  No issue means that all came first.  *)
(***************************************************************************)
Sorted ==
    /\ \A i \in inline : i < next /\ IsInline(i)
    /\ \A i \in named : i < next /\ ~IsInline(i) /\ keys[i] # NoKey
    /\ \A i \in Given : i < next /\ ~IsInline(i) => Declared(i) = {keys[i]} \ {NoKey}
    /\ \A i, j \in inline : Identity(input.parameters[i]) = Identity(input.parameters[j]) => i = j
    /\ \A i, j \in named : keys[i] = keys[j] => i = j
    /\ issues = {} =>
          /\ \A i \in Given : i < next /\ IsInline(i) => i \in inline
          /\ \A i \in Given : i < next /\ ~IsInline(i) /\ keys[i] # NoKey => i \in named

LEMMA SortedInit == OperationInit => Sorted
<1> SUFFICES ASSUME OperationInit PROVE Sorted
  OBVIOUS
<1>1. \A i \in Given : ~(i < next)
  BY InputsAreTyped DEF OperationInit
<1> QED
  BY <1>1 DEF OperationInit, Sorted

LEMMA InlineIsSorted ==
    ASSUME TypeInv, Sorted, TakeInline
    PROVE  Sorted'
<1> USE DEF TakeInline, Sorted
<1>1. Given = 1 .. Len(input.parameters) /\ Len(input.parameters) \in Nat /\ next \in Given
  BY InputsAreTyped DEF TypeInv, Located, Collecting
<1>2. /\ Given' = Given
      /\ \A i : IsInline(i)' = IsInline(i) /\ Declared(i)' = Declared(i)
  BY DEF Given, IsInline, Declared, Declares, LeadsTo, Trails, Along, referencesVars
<1>3. \A i \in Given : i < next' <=> i < next \/ i = next
  BY <1>1
<1>4. inline \subseteq Given /\ named \subseteq Given
  BY DEF TypeInv, OperationTypeOK
<1>5. \A i, j \in inline' : Identity(input.parameters[i]) = Identity(input.parameters[j]) => i = j
  BY DEF InlineTwice
<1>6. issues' = {} => issues = {} /\ inline' = inline \cup {next}
  <2>1. InlineTwice(next) => issues' = issues \cup {<<"twice", Identity(input.parameters[next])>>}
    BY DEF TakeInline
  <2>2. ~InlineTwice(next) => issues' = issues /\ inline' = inline \cup {next}
    BY DEF TakeInline
  <2> HIDE DEF TakeInline, Sorted
  <2> QED
    BY <2>1, <2>2
<1> QED
  BY <1>1, <1>2, <1>3, <1>4, <1>5, <1>6

LEMMA ReferenceIsSorted ==
    ASSUME TypeInv, ReferencesInv, Sorted, NoteReference
    PROVE  Sorted'
<1> USE DEF NoteReference, Sorted
<1>1. /\ Given = 1 .. Len(input.parameters)
      /\ Len(input.parameters) \in Nat
      /\ next \in Given
      /\ ~IsInline(next)
  BY InputsAreTyped DEF TypeInv, Located
<1>2. /\ Given' = Given
      /\ \A i : IsInline(i)' = IsInline(i) /\ Declared(i)' = Declared(i)
  BY DEF Given, IsInline, Declared, Declares, LeadsTo, Trails, Along, referencesVars
<1>3. \A i \in Given : i < next' <=> i < next \/ i = next
  BY <1>1
<1>4. inline \subseteq Given /\ named \subseteq Given /\ \A i \in Given : ~(i < next /\ i = next)
  BY <1>1 DEF TypeInv, OperationTypeOK
<1>5. /\ keys'[next] = KnownKey
      /\ \A i \in Given : i # next => keys'[i] = keys[i]
  BY <1>1 DEF TypeInv, OperationTypeOK
<1>6. Declared(next) = {KnownKey} \ {NoKey}
  BY NotedDeclares
<1>7. CASE KnownKey = NoKey \/ ReferenceTwice(KnownKey)
  <2>1. /\ inline' = inline /\ named' = named /\ input' = input
        /\ issues' = {} => issues = {} /\ KnownKey = NoKey
    BY <1>7
  <2>2. \A i \in inline' \cup named' : i < next' /\ i # next /\ i \in Given
    BY <1>3, <1>4, <2>1
  <2>3. \A i \in named' : ~IsInline(i)' /\ keys'[i] = keys[i] /\ keys[i] # NoKey
    BY <1>2, <1>5, <2>1, <2>2
  <2>4. \A i \in Given : i < next' /\ ~IsInline(i) => Declared(i) = {keys'[i]} \ {NoKey}
    BY <1>3, <1>5, <1>6
  <2>5. issues' = {} =>
          /\ \A i \in Given : i < next' /\ IsInline(i) => i \in inline
          /\ \A i \in Given : i < next' /\ ~IsInline(i) /\ keys'[i] # NoKey => i \in named
    BY <1>1, <1>3, <1>5, <2>1
  <2> HIDE DEF NoteReference
  <2> QED
    BY <1>2, <2>1, <2>2, <2>3, <2>4, <2>5
<1>8. CASE KnownKey # NoKey /\ ~ReferenceTwice(KnownKey)
  <2>1. /\ inline' = inline /\ named' = named \cup {next} /\ input' = input
        /\ issues' = issues
    BY <1>8
  <2>2. /\ \A i \in inline' \cup named' : i < next' /\ i \in Given
        /\ \A i \in inline \cup named : i # next
    BY <1>1, <1>3, <1>4, <2>1
  <2>3. /\ \A i \in named' : ~IsInline(i)' /\ keys'[i] # NoKey
        /\ \A i \in named : keys'[i] = keys[i] /\ keys[i] # KnownKey
    BY <1>1, <1>2, <1>4, <1>5, <1>8, <2>1, <2>2 DEF ReferenceTwice
  <2>4. \A i \in Given : i < next' /\ ~IsInline(i) => Declared(i) = {keys'[i]} \ {NoKey}
    BY <1>3, <1>5, <1>6
  <2>5. issues' = {} =>
          /\ \A i \in Given : i < next' /\ IsInline(i) => i \in inline'
          /\ \A i \in Given : i < next' /\ ~IsInline(i) /\ keys'[i] # NoKey => i \in named'
    BY <1>1, <1>3, <1>5, <2>1
  <2>6. \A i, j \in named' : keys'[i] = keys'[j] => i = j
    BY <1>5, <2>1, <2>3
  <2> HIDE DEF NoteReference
  <2> QED
    BY <1>2, <2>1, <2>2, <2>3, <2>4, <2>5, <2>6
<1> QED
  BY <1>7, <1>8

\* No other step sorts.
LEMMA StaysSorted ==
    ASSUME Sorted, UNCHANGED <<input, components, next, inline, named, keys>>,
           issues' = {} => issues = {}
    PROVE  Sorted'
<1>1. /\ Given' = Given
      /\ \A i : IsInline(i)' = IsInline(i) /\ Declared(i)' = Declared(i)
  BY DEF Given, IsInline, Declared, Declares, LeadsTo, Trails, Along
<1> QED
  BY <1>1 DEF Sorted

-----------------------------------------------------------------------------
(* What the three loops make of the sorted parameters. *)

Loops == {"path", "inline", "reference"}

FitsPath(entries) ==
    /\ \A name \in input.path : \E e \in entries : PathKey(name) \in DeclaredBy(e)
    /\ \A e \in entries : \A key \in DeclaredBy(e) : key[1] = "path" => key[2] \in input.path
    /\ \A e, f \in entries : DeclaredBy(e) \cap DeclaredBy(f) # {} => e = f
    /\ \A i \in Given : \E loop \in Loops :
          \A other \in Loops : <<other, i>> \in entries <=> other = loop

\* No parameter is left to look at, and neither sorting nor merging has an issue.
Clean == TypeInv /\ Sorted /\ next \notin Given /\ issues = {} /\ Both = {} /\ Strays = {}

LEMMA CleanDeclares ==
    ASSUME Clean
    PROVE  /\ inline \subseteq Given /\ named \subseteq Given
           /\ \A i \in Given : IsInline(i) =>
                 i \in inline /\ Declared(i) = {Identity(input.parameters[i])}
           /\ \A i \in Given : ~IsInline(i) =>
                 Declared(i) = {keys[i]} \ {NoKey} /\ (keys[i] # NoKey => i \in named)
           /\ \A i \in inline : IsInline(i)
           /\ \A i \in named : ~IsInline(i) /\ keys[i] # NoKey
           /\ \A i \in Given : Declared(i) \subseteq Keys
<1>0. Given = 1 .. Len(input.parameters) /\ Len(input.parameters) \in Nat /\ next \in Nat
  BY InputsAreTyped DEF Clean, TypeInv, Located, OperationTypeOK
<1>1. \A i \in Given : i < next
  BY <1>0 DEF Clean, TypeInv, OperationTypeOK
<1>2. \A i \in Given : IsInline(i) => Declared(i) = {Identity(input.parameters[i])}
  BY InlineDeclares DEF Clean
<1>3. \A i \in Given : IsInline(i) => Identity(input.parameters[i]) \in Keys
  BY IdentityIsKey DEF IsInline
<1>4. \A i \in Given : keys[i] \in Keys \cup {NoKey}
  BY DEF Clean, TypeInv, OperationTypeOK
<1>5. inline \subseteq Given /\ named \subseteq Given
  BY DEF Clean, TypeInv, OperationTypeOK
<1>6. Sorted /\ issues = {}
  BY DEF Clean
<1>a. \A i \in Given : IsInline(i) => i \in inline
  BY <1>1, <1>6 DEF Sorted
<1>b. \A i \in Given : ~IsInline(i) => Declared(i) = {keys[i]} \ {NoKey}
  BY <1>1, <1>6 DEF Sorted
<1>c. \A i \in Given : ~IsInline(i) /\ keys[i] # NoKey => i \in named
  BY <1>1, <1>6 DEF Sorted
<1>7. /\ \A i \in inline : IsInline(i)
      /\ \A i \in named : ~IsInline(i) /\ keys[i] # NoKey
  BY DEF Clean, Sorted
<1>8. ASSUME NEW i \in Given PROVE Declared(i) \subseteq Keys
  <2>1. CASE IsInline(i)
    BY <1>2, <1>3, <2>1
  <2>2. CASE ~IsInline(i)
    BY <1>4, <1>b, <2>2
  <2> QED
    BY <2>1, <2>2
<1> QED
  BY <1>2, <1>5, <1>7, <1>8, <1>a, <1>b, <1>c

\* Those that declare a key: one at most, whether inline or a reference.
LEMMA CleanIsDistinct ==
    ASSUME Clean, NEW i \in Given, NEW j \in Given, NEW key, key \in Declared(i), key \in Declared(j)
    PROVE  i = j
<1> USE CleanDeclares
<1>1. CASE IsInline(i) /\ IsInline(j)
  BY <1>1 DEF Clean, Sorted
<1>2. CASE ~IsInline(i) /\ ~IsInline(j)
  BY <1>2 DEF Clean, Sorted
<1>3. ASSUME NEW k \in Given, NEW l \in Given, IsInline(k), ~IsInline(l),
             key \in Declared(k), key \in Declared(l)
      PROVE  FALSE
  <2>1. l \in named /\ keys[l] = key
    BY <1>3
  <2>2. k \in InlineOf(key)
    BY <1>3 DEF InlineOf
  <2>3. key \in Both
    BY <2>1, <2>2 DEF Both
  <2> QED
    BY <2>3 DEF Clean
<1> QED
  BY <1>1, <1>2, <1>3

LEMMA CleanKeys ==
    ASSUME Clean, NEW key \in Keys
    PROVE  /\ InlineOf(key) = {i \in Given : IsInline(i) /\ key \in Declared(i)}
           /\ NamedOf(key) = {i \in Given : ~IsInline(i) /\ key \in Declared(i)}
BY CleanDeclares, NoKeyIsNone DEF InlineOf, NamedOf

LEMMA PathKeys ==
    ASSUME TypeInv, NEW name \in input.path
    PROVE  PathKey(name) \in Keys
BY InputsAreTyped DEF TypeInv, Located, PathKey, Keys, Locations

\* The first loop writes those that declare a name of the path, ...
LEMMA PathLoop ==
    ASSUME Clean
    PROVE  /\ \A i : <<"path", i>> \in PathEntries <=>
                 i \in Given /\ \E name \in input.path : PathKey(name) \in Declared(i)
           /\ \A name : <<"inferred", name>> \in PathEntries <=>
                 name \in input.path /\ \A i \in Given : PathKey(name) \notin Declared(i)
           /\ \A e \in PathEntries :
                 \/ \E i \in Given : e = <<"path", i>>
                 \/ \E name \in input.path : e = <<"inferred", name>>
<1> DEFINE Declarers(name) == {i \in Given : PathKey(name) \in Declared(i)}
<1>1. ASSUME NEW name \in input.path
      PROVE  PathEntry(name) = IF Declarers(name) # {} THEN {"path"} \X Declarers(name)
                               ELSE {<<"inferred", name>>}
  <2>1. PathKey(name) \in Keys
    BY <1>1, PathKeys DEF Clean
  <2>2. Declarers(name) = InlineOf(PathKey(name)) \cup NamedOf(PathKey(name))
    BY <2>1, CleanKeys
  <2>3. InlineOf(PathKey(name)) = {} \/ NamedOf(PathKey(name)) = {}
    BY <2>1, CleanKeys, CleanIsDistinct
  <2> HIDE DEF Declarers
  <2>4. CASE InlineOf(PathKey(name)) # {}
    BY <2>2, <2>3, <2>4 DEF PathEntry
  <2>5. CASE InlineOf(PathKey(name)) = {}
    BY <2>2, <2>5 DEF PathEntry
  <2> QED
    BY <2>4, <2>5
<1>2. ASSUME NEW i
      PROVE  <<"path", i>> \in PathEntries <=>
                 i \in Given /\ \E name \in input.path : PathKey(name) \in Declared(i)
  BY <1>1 DEF PathEntries
<1>3. ASSUME NEW name
      PROVE  <<"inferred", name>> \in PathEntries <=>
                 name \in input.path /\ \A i \in Given : PathKey(name) \notin Declared(i)
  BY <1>1 DEF PathEntries
<1>4. ASSUME NEW e \in PathEntries
      PROVE  \/ \E i \in Given : e = <<"path", i>>
             \/ \E name \in input.path : e = <<"inferred", name>>
  BY <1>1, <1>4 DEF PathEntries
<1> QED
  BY <1>2, <1>3, <1>4

\* ... the second the inline ones that are not in the path, ...
LEMMA InlineLoop ==
    /\ \A i : <<"inline", i>> \in InlineEntries <=> i \in Given /\ IsInline(i) /\ ~InlinePath(i)
    /\ \A e \in InlineEntries : \E i \in Given : e = <<"inline", i>>
BY DEF InlineEntries

\* ... and the third the references that are left, of which none is stray.
LEMMA ReferenceLoop ==
    ASSUME Clean
    PROVE  /\ \A i : <<"reference", i>> \in ReferenceEntries <=>
                 i \in Given /\ ~IsInline(i) /\ <<"path", i>> \notin PathEntries
           /\ \A e \in ReferenceEntries : \E i \in Given : e = <<"reference", i>>
<1>1. ASSUME NEW i \in Given \ Used, ~IsInline(i) PROVE ~StrayReference(i)
  BY <1>1 DEF Clean, Strays
<1> QED
  BY <1>1 DEF ReferenceEntries, Used

LEMMA CleanFits ==
    ASSUME Clean
    PROVE  FitsPath(PathEntries \cup InlineEntries \cup ReferenceEntries)
<1> DEFINE entries == PathEntries \cup InlineEntries \cup ReferenceEntries
<1>1. /\ \A i : <<"path", i>> \in entries <=>
            i \in Given /\ \E name \in input.path : PathKey(name) \in Declared(i)
      /\ \A name : <<"inferred", name>> \in entries <=>
            name \in input.path /\ \A i \in Given : PathKey(name) \notin Declared(i)
      /\ \A i : <<"inline", i>> \in entries <=> i \in Given /\ IsInline(i) /\ ~InlinePath(i)
      /\ \A i : <<"reference", i>> \in entries <=>
            i \in Given /\ ~IsInline(i) /\ <<"path", i>> \notin entries
      /\ \A e \in entries : \/ \E loop \in Loops, i \in Given : e = <<loop, i>>
                           \/ \E name \in input.path : e = <<"inferred", name>>
  BY PathLoop, InlineLoop, ReferenceLoop DEF Loops
<1> HIDE DEF entries
<1>2. ASSUME NEW i \in Given, IsInline(i)
      PROVE  /\ Declared(i) = {Identity(input.parameters[i])}
             /\ InlinePath(i) => /\ input.parameters[i].name \in input.path
                                /\ Declared(i) = {PathKey(input.parameters[i].name)}
             /\ ~InlinePath(i) => \A key \in Declared(i) : /\ key[1] # "path"
                                                         /\ \A name : key # PathKey(name)
  <2>1. input.parameters[i] \in Declarations /\ Declared(i) = {Identity(input.parameters[i])}
    BY <1>2, CleanDeclares DEF IsInline
  <2>2. InlinePath(i) <=> input.parameters[i].in = "path"
    BY <1>2 DEF InlinePath
  <2>3. InlinePath(i) => input.parameters[i].name \in input.path
    BY <1>2 DEF Clean, Strays
  <2>4. Identity(input.parameters[i]) # NoKey
    BY <2>1, IdentityIsKey, NoKeyIsNone
  <2> QED
    BY <2>1, <2>2, <2>3, <2>4, IdentityIsKey DEF InPath
<1>3. ASSUME NEW i \in Given, ~IsInline(i), <<"path", i>> \notin entries, NEW key \in Declared(i),
             key[1] = "path"
      PROVE  FALSE
  <2>1. key = keys[i] /\ key # NoKey /\ key \in Keys
    BY <1>3, CleanDeclares
  <2>2. i \in Given \ Used
    BY <1>1, <1>3, PathLoop DEF Used
  <2>3. ~StrayReference(i)
    BY <1>3, <2>2 DEF Clean, Strays
  <2>4. key[2] \in input.path
    BY <1>3, <2>1, <2>3 DEF StrayReference, InPath
  <2>5. key = PathKey(key[2])
    BY <1>3, <2>1 DEF Keys, PathKey
  <2> QED
    BY <1>1, <1>3, <2>4, <2>5
<1>4. ASSUME NEW i \in Given, NEW loop \in Loops, <<loop, i>> \in entries
      PROVE  DeclaredBy(<<loop, i>>) = Declared(i)
  BY DEF DeclaredBy, Declared, Loops
<1>5. \A name : DeclaredBy(<<"inferred", name>>) = {PathKey(name)}
  BY DEF DeclaredBy
<1>6. ASSUME NEW name \in input.path
      PROVE  \E e \in entries : PathKey(name) \in DeclaredBy(e)
  <2>1. ASSUME NEW i \in Given, PathKey(name) \in Declared(i)
        PROVE  \E e \in entries : PathKey(name) \in DeclaredBy(e)
    <3>1. <<"path", i>> \in entries /\ "path" \in Loops
      BY <1>1, <2>1 DEF Loops
    <3> QED
      BY <1>4, <2>1, <3>1
  <2>2. CASE \A i \in Given : PathKey(name) \notin Declared(i)
    BY <1>1, <1>5, <2>2
  <2> QED
    BY <2>1, <2>2
<1>7. ASSUME NEW e \in entries, NEW key \in DeclaredBy(e), key[1] = "path"
      PROVE  key[2] \in input.path
  <2>1. ASSUME NEW name \in input.path, e = <<"inferred", name>>
        PROVE  key[2] \in input.path
    <3>1. key = PathKey(name)
      BY <1>5, <1>7, <2>1
    <3> QED
      BY <3>1 DEF PathKey
  <2>2. ASSUME NEW loop \in Loops, NEW i \in Given, e = <<loop, i>>
        PROVE  key[2] \in input.path
    <3>1. key \in Declared(i)
      BY <1>4, <1>7, <2>2
    <3>2. CASE IsInline(i)
      BY <1>2, <1>7, <3>1, <3>2 DEF PathKey
    <3>3. CASE ~IsInline(i)
      <4>1. <<"path", i>> \in entries
        BY <1>3, <1>7, <3>1, <3>3
      <4>2. PICK name \in input.path : PathKey(name) \in Declared(i)
        BY <1>1, <4>1
      <4>3. key = PathKey(name)
        BY <3>1, <3>3, <4>2, CleanDeclares
      <4> QED
        BY <4>3 DEF PathKey
    <3> QED
      BY <3>2, <3>3
  <2> QED
    BY <1>1, <2>1, <2>2
<1>8. ASSUME NEW i \in Given
      PROVE  \E loop \in Loops : \A other \in Loops : <<other, i>> \in entries <=> other = loop
  <2>1. CASE IsInline(i) /\ InlinePath(i)
    <3>1. /\ <<"path", i>> \in entries
          /\ <<"inline", i>> \notin entries
          /\ <<"reference", i>> \notin entries
      BY <1>1, <1>2, <2>1
    <3> QED
      BY <3>1 DEF Loops
  <2>2. CASE IsInline(i) /\ ~InlinePath(i)
    <3>1. /\ <<"path", i>> \notin entries
          /\ <<"inline", i>> \in entries
          /\ <<"reference", i>> \notin entries
      BY <1>1, <1>2, <2>2
    <3> QED
      BY <3>1 DEF Loops
  <2>3. CASE ~IsInline(i)
    <3>1. /\ <<"inline", i>> \notin entries
          /\ <<"reference", i>> \in entries <=> <<"path", i>> \notin entries
      BY <1>1, <2>3
    <3> QED
      BY <3>1 DEF Loops
  <2> QED
    BY <2>1, <2>2, <2>3
<1>9. ASSUME NEW e \in entries, NEW f \in entries, NEW key \in DeclaredBy(e), key \in DeclaredBy(f)
      PROVE  e = f
  <2>1. ASSUME NEW loop \in Loops, NEW i \in Given, e = <<loop, i>>,
               NEW other \in Loops, NEW j \in Given, f = <<other, j>>
        PROVE  e = f
    <3>1. i = j
      BY <1>4, <1>9, <2>1, CleanIsDistinct
    <3> QED
      BY <1>8, <1>9, <2>1, <3>1
  <2>2. ASSUME NEW g \in entries, NEW h \in entries, key \in DeclaredBy(g), key \in DeclaredBy(h),
               NEW name \in input.path, g = <<"inferred", name>>,
               NEW loop \in Loops, NEW i \in Given, h = <<loop, i>>
        PROVE  FALSE
    <3>1. key = PathKey(name) /\ key \in Declared(i)
      BY <1>4, <1>5, <2>2
    <3> QED
      BY <1>1, <2>2, <3>1
  <2>3. ASSUME NEW name \in input.path, e = <<"inferred", name>>,
               NEW other \in input.path, f = <<"inferred", other>>
        PROVE  e = f
    BY <1>5, <1>9, <2>3 DEF PathKey
  <2> QED
    BY <1>1, <1>9, <2>1, <2>2, <2>3
<1> QED
  BY <1>6, <1>7, <1>8, <1>9 DEF FitsPath, entries

-----------------------------------------------------------------------------
(* The invariant, and the steps. *)

Merged == phase \notin {"register", "collect", "resolve"}

Fitted == Merged /\ input.kind = "route" /\ issues = {} => FitsPath(result)

LEMMA StaysFitted ==
    ASSUME Fitted, UNCHANGED <<input, components, result>>,
           Merged' /\ input.kind = "route" => Merged, issues' = {} => issues = {}
    PROVE  Fitted'
<1>1. Given' = Given /\ \A e : DeclaredBy(e)' = DeclaredBy(e)
  BY DEF Given, DeclaredBy, Declares, LeadsTo, Trails, Along
<1> QED
  BY <1>1 DEF Fitted, FitsPath

LEMMA MergeFits ==
    ASSUME TypeInv, Sorted, Merge
    PROVE  Fitted'
<1> SUFFICES ASSUME issues' = {} PROVE FitsPath(result)'
  BY DEF Fitted
<1>1. issues = {} /\ Both = {} /\ Strays = {}
  <2>1. issues \cup ({"both"} \X Both) \cup ({"stray"} \X Strays) \subseteq issues'
    BY DEF Merge
  <2>2. ASSUME NEW key \in Both PROVE <<"both", key>> \in issues'
    <3>1. <<"both", key>> \in {"both"} \X Both
      BY <2>2
    <3> QED
      BY <2>1, <3>1, Zenon
  <2>3. ASSUME NEW key \in Strays PROVE <<"stray", key>> \in issues'
    <3>1. <<"stray", key>> \in {"stray"} \X Strays
      BY <2>3
    <3> QED
      BY <2>1, <3>1, Zenon
  <2> QED
    BY <2>1, <2>2, <2>3
<1>2. Clean
  BY <1>1 DEF Clean, Merge
<1>3. FitsPath(result')
  BY <1>2, CleanFits DEF Merge
<1>4. Given' = Given /\ \A e : DeclaredBy(e)' = DeclaredBy(e)
  BY DEF Merge, referencesVars, Given, DeclaredBy, Declares, LeadsTo, Trails, Along
<1> QED
  BY <1>3, <1>4 DEF FitsPath, Merge

FitInv == Sorted /\ Fitted

LEMMA FitInit == OperationInit => FitInv
<1> SUFFICES ASSUME OperationInit PROVE FitInv
  OBVIOUS
<1>1. Sorted
  BY SortedInit
<1>2. Fitted
  BY DEF OperationInit, Fitted, Merged
<1> QED
  BY <1>1, <1>2 DEF FitInv

LEMMA FitStep ==
    ASSUME FitInv, TypeInv, ReferencesInv, [OperationNext]_operationVars
    PROVE  FitInv'
<1> USE DEF FitInv
<1>0. ASSUME UNCHANGED <<input, components, merging>>,
             Merged' /\ input.kind = "route" => Merged, issues' = {} => issues = {}
      PROVE  FitInv'
  BY <1>0, StaysSorted, StaysFitted DEF merging
<1>a. Asking
  BY DEF Asking, TypeInv, Located, OperationTypeOK, ReferencesTypeOK
<1>b. UNCHANGED components
  BY <1>a, ReferencesStep DEF ReferencesNext, referencesVars, Resolve, SettleKnown,
                              SettleUnknown, Follow, Begin
<1>1. CASE RefuseWebhook
  BY <1>0, <1>1, <1>b DEF RefuseWebhook, TypeInv, Located
<1>2. CASE TakeWebhook
  <2>1. Sorted'
    BY <1>2, <1>b, StaysSorted DEF TakeWebhook
  <2>2. Fitted'
    BY <1>2 DEF TakeWebhook, TypeInv, Located, Fitted
  <2> QED
    BY <2>1, <2>2
<1>3. CASE TakeInline
  <2>1. Sorted'
    BY <1>3, InlineIsSorted
  <2>2. Fitted'
    BY <1>3 DEF TakeInline, Collecting, Fitted, Merged
  <2> QED
    BY <2>1, <2>2
<1>4. CASE AskReference
  BY <1>0, <1>4, <1>b DEF AskReference, Collecting, Merged
<1>5. CASE NoteReference
  <2>1. Sorted'
    BY <1>5, ReferenceIsSorted
  <2>2. Fitted'
    BY <1>5 DEF NoteReference, Fitted, Merged
  <2> QED
    BY <2>1, <2>2
<1>6. CASE Merge
  <2>1. issues' = {} => issues = {}
    BY <1>6 DEF Merge
  <2>2. Sorted'
    BY <1>6, <1>b, <2>1, StaysSorted DEF Merge
  <2> QED
    BY <1>6, <2>2, MergeFits
<1>7. CASE ValidateParameters \/ ValidateComponents
  BY <1>0, <1>7, <1>b DEF ValidateParameters, ValidateComponents, Merged
<1>8. ASSUME NEW r \in Requirement, MissScheme(r) \/ AskScheme(r) PROVE FitInv'
  <2>1. issues' = {} => issues = {}
    BY <1>8 DEF MissScheme, AskScheme
  <2> QED
    BY <1>0, <1>8, <1>b, <2>1 DEF MissScheme, AskScheme, Merged, merging
<1>9. CASE NoteScheme \/ NoteProperty
  BY <1>0, <1>9, <1>b DEF NoteScheme, NoteProperty, Merged
<1>10. ASSUME NEW p \in Properties, AskProperty(p) PROVE FitInv'
  BY <1>0, <1>10, <1>b DEF AskProperty, Merged
<1>11. CASE Finish
  BY <1>0, <1>11, <1>b DEF Finish, Merged
<1>12. CASE Recur /\ UNCHANGED <<input, phase, merging, checking, issues>>
  BY <1>0, <1>12, <1>b DEF Merged
<1>13. CASE UNCHANGED operationVars
  BY <1>0, <1>13, <1>b DEF operationVars, merging, Merged
<1> QED
  BY <1>1, <1>2, <1>3, <1>4, <1>5, <1>6, <1>7, <1>8, <1>9, <1>10, <1>11, <1>12, <1>13
     DEF OperationNext

LEMMA FitHolds == OperationSpec => []FitInv
<1>1. FitInv /\ TypeInv /\ (ReferencesInv /\ EncodingsInv) /\ [OperationNext]_operationVars
        => FitInv'
  BY FitStep
<1> QED
  BY <1>1, FitInit, TypeHolds, PartsHold, PTL DEF OperationSpec

(***************************************************************************)
(* Whatever the path, the documented parameters and the components are,   *)
(* the parameters of an accepted operation fit its path.                  *)
(***************************************************************************)
THEOREM ParametersFit == OperationSpec => []ParametersFitThePath
<1>1. FitInv => ParametersFitThePath
  BY DEF FitInv, Fitted, Merged, FitsPath, Loops, ParametersFitThePath, Accepted, Done
<1> QED
  BY <1>1, FitHolds, PTL
-----------------------------------------------------------------------------
(* What is asked of the parts of an operation. *)

\* What sorting and merging decide: all but the schemas of parameters outside the path.
MergesSoundly ==
    IF input.kind = "route"
    THEN Distinct /\ OnThePath /\ \A name \in input.unportable : ~Needy(name)
    ELSE \A i \in Given : ~InlinePath(i)

\* What is looked at in a webhook's parameters.
WebhookPasses == \A i \in Given : IsInline(i) => ~InlinePath(i) /\ input.parameters[i].schema

ParametersAreSound ==
    /\ IF input.kind = "route" THEN RouteIsSound ELSE WebhookPasses
    /\ \A i \in Given : input.parameters[i] # Missing

EncodingIsSound(p) == (\E n \in Reached : p \in schemas[n].declares) \/ Hidden

\* Two parameters of one kind, looked at both, that declare the same.
Clash ==
    \E i, j \in Given : /\ i # j /\ i < next /\ j < next
                        /\ IsInline(i) <=> IsInline(j)
                        /\ Declared(i) \cap Declared(j) # {}

\* The requirements and encodings that were checked.
CheckedSecurity  == input.security \ (security \cup asked)
CheckedEncodings == input.encodings \ (encodings \cup {p \in {property} : phase = "walk"})

(***************************************************************************)
(* What is left to check, phase by phase.                                  *)
(***************************************************************************)
Staged ==
    /\ components = input.components /\ schemas = input.schemas
    /\ security \subseteq input.security /\ encodings \subseteq input.encodings
    /\ phase \in {"collect", "resolve"} => input.kind = "route"
    /\ phase \in {"register", "collect", "resolve", "parameters"} =>
          security = input.security /\ asked = {}
    /\ phase = "security" => asked = {}
    /\ phase = "scheme" =>
          \E r \in input.security \ security :
              asked = {r} /\ r.scheme \in SchemeNames /\ origin = components[r.scheme]
    /\ phase \notin {"body", "walk", "done"} => encodings = input.encodings
    /\ phase = "walk" =>
          /\ property \in input.encodings \ encodings
          /\ outcome = "error" => \E n \in Nodes : schemas[n].ref = Nowhere

(***************************************************************************)
(* There is no issue exactly if all that was checked is sound.  While the *)
(* parameters are sorted, an issue is a clash of two of them; what is     *)
(* written of them is all that was given, or there is an issue already.   *)
(***************************************************************************)
ExactSoFar ==
    /\ phase = "register" => issues = {}
    /\ phase \in {"collect", "resolve"} => issues = {} \/ Clash
    /\ phase = "parameters" =>
          /\ issues = {} <=> MergesSoundly
          /\ issues = {} =>
                /\ Written = Given
                /\ \A i \in Given : <<"inline", i>> \in result <=> IsInline(i) /\ ~InlinePath(i)
    /\ phase \in {"security", "scheme"} =>
          (issues = {} <=> /\ ParametersAreSound
                           /\ \A r \in CheckedSecurity : RequirementIsSound(r))
    /\ phase \in {"body", "walk"} =>
          (issues = {} <=> /\ ParametersAreSound
                           /\ \A r \in input.security : RequirementIsSound(r)
                           /\ ComponentIssues = {}
                           /\ \A p \in CheckedEncodings : EncodingIsSound(p))
    /\ phase = "done" =>
          (issues = {} <=> /\ ParametersAreSound
                           /\ \A r \in input.security : RequirementIsSound(r)
                           /\ ComponentIssues = {}
                           /\ \A p \in input.encodings : EncodingIsSound(p))

AcceptanceInv == Staged /\ ExactSoFar

LEMMA SameInput ==
    ASSUME UNCHANGED <<input, components, schemas>>
    PROVE  /\ Given' = Given
           /\ \A i : /\ IsInline(i)' <=> IsInline(i)
                     /\ InlinePath(i)' <=> InlinePath(i)
                     /\ Declared(i)' = Declared(i)
           /\ MergesSoundly' <=> MergesSoundly
           /\ ParametersAreSound' <=> ParametersAreSound
           /\ \A r : RequirementIsSound(r)' <=> RequirementIsSound(r)
           /\ ComponentIssues' = ComponentIssues
           /\ \A p : EncodingIsSound(p)' <=> EncodingIsSound(p)
<1>1. /\ Given' = Given
      /\ \A i : (IsInline(i)' <=> IsInline(i)) /\ (InlinePath(i)' <=> InlinePath(i))
  BY DEF Given, IsInline, InlinePath
<1>2. \A v, c : LeadsTo(v, c)' <=> LeadsTo(v, c)
  BY DEF LeadsTo, Trails, Along
<1>3. \A v : Declares(v)' = Declares(v)
  BY <1>2 DEF Declares
<1>4. \A i : Declared(i)' = Declared(i)
  BY <1>3 DEF Declared
<1>5. /\ Distinct' <=> Distinct
      /\ OnThePath' <=> OnThePath
      /\ \A name : Needy(name)' <=> Needy(name)
  BY <1>1, <1>3 DEF Distinct, OnThePath, Needy
<1>6. MergesSoundly' <=> MergesSoundly
  BY <1>1, <1>5 DEF MergesSoundly
<1>7. ParametersAreSound' <=> ParametersAreSound
  BY <1>1, <1>5 DEF ParametersAreSound, RouteIsSound, WebhookPasses
<1>8. \A r : RequirementIsSound(r)' <=> RequirementIsSound(r)
  BY <1>2 DEF RequirementIsSound
<1>9. ComponentIssues' = ComponentIssues
  BY DEF ComponentIssues
<1>10. Reached' = Reached /\ (Hidden' <=> Hidden)
  BY SameSchemas DEF Reached, Parts, Alternatives
<1>11. \A p : EncodingIsSound(p)' <=> EncodingIsSound(p)
  BY <1>10 DEF EncodingIsSound
<1> QED BY <1>1, <1>4, <1>6, <1>7, <1>8, <1>9, <1>11

LEMMA InputStays ==
    ASSUME TypeInv, [OperationNext]_operationVars
    PROVE  UNCHANGED <<input, components, schemas>>
<1>1. Asking
  BY DEF Asking, TypeInv, Located, OperationTypeOK, ReferencesTypeOK
<1>2. UNCHANGED components
  BY <1>1, ReferencesStep DEF ReferencesNext, referencesVars, Resolve, SettleKnown,
                              SettleUnknown, Follow, Begin
<1>3. UNCHANGED schemas
  BY <1>1, EncodingsStep
     DEF EncodingsNext, encodingsVars, walk, Walk, BeginWalk, FindProperty, VisitPlain,
         SkipReference, FollowReference, FailWalk, EndWalk
<1>4. UNCHANGED input
  BY DEF operationVars, OperationNext, RefuseWebhook, TakeWebhook, TakeInline, AskReference,
         NoteReference, Merge, ValidateParameters, MissScheme, AskScheme, NoteScheme,
         ValidateComponents, AskProperty, NoteProperty, Finish
<1> QED BY <1>2, <1>3, <1>4

LEMMA ProductIsEmpty ==
    ASSUME NEW a, NEW S
    PROVE  {a} \X S = {} <=> S = {}
<1>1. ASSUME NEW e \in S PROVE <<a, e>> \in {a} \X S
  OBVIOUS
<1> QED BY <1>1, Zenon

(***************************************************************************)
(* What a component leads to is what its name leads to, as far as it is   *)
(* concrete; and from a security scheme that is one.                       *)
(***************************************************************************)
LEMMA NameLeadsOn ==
    ASSUME NEW n \in Names, NEW c \in Concretes
    PROVE  LeadsTo(n, c) <=> LeadsTo(components[n], c)
<1>0. c \notin Names
  BY ReferencesAssumption
<1>1. ASSUME LeadsTo(components[n], c), NEW S \in Trails(n) PROVE c \in Along(n, S)
  <2>1. n \in S /\ S \subseteq Names
    BY DEF Trails, Along
  <2>2. Along(components[n], S) \subseteq Along(n, S)
    BY <2>1 DEF Along
  <2>3. S \in Trails(components[n])
    BY <2>2 DEF Trails
  <2> QED BY <1>1, <2>2, <2>3 DEF LeadsTo
<1>2. ASSUME LeadsTo(n, c), NEW S \in Trails(components[n]) PROVE c \in Along(components[n], S)
  <2> DEFINE T == S \cup {n}
  <2>1. Along(n, T) = {n} \cup Along(components[n], S)
    BY DEF Along
  <2>2. T \in Trails(n)
    BY <2>1 DEF Trails
  <2> QED BY <1>0, <1>2, <2>1, <2>2 DEF LeadsTo
<1> QED BY <1>1, <1>2 DEF LeadsTo

LEMMA SchemesLeadToSchemes ==
    ASSUME TypeInv, Staged, NEW n \in SchemeNames, NEW c \in Concretes, LeadsTo(components[n], c)
    PROVE  c \in Schemes
<1>1. /\ SchemeNames \subseteq Names
      /\ \A m \in SchemeNames :
            components[m] \in Schemes \cup SchemeNames \cup {External, Missing}
  BY OperationAssumption DEF TypeInv, Located, Staged
<1>2. Along(components[n], SchemeNames) \subseteq Schemes \cup SchemeNames \cup {External, Missing}
  BY <1>1 DEF Along
<1>3. SchemeNames \in Trails(components[n])
  BY <1>1, <1>2, ReferencesAssumption, OperationAssumption DEF Trails, Reference
<1>4. c \in Along(components[n], SchemeNames)
  BY <1>3 DEF LeadsTo
<1> QED BY <1>1, <1>2, <1>4, ReferencesAssumption

-----------------------------------------------------------------------------
(* What each check adds. *)

LEMMA ClashGrows ==
    ASSUME TypeInv, UNCHANGED <<input, components, schemas>>, next' \in {next, next + 1}, Clash
    PROVE  Clash'
<1>1. next \in Nat /\ Given \subseteq Nat
  BY InputsAreTyped DEF TypeInv, Located, OperationTypeOK
<1>2. PICK i \in Given, j \in Given : /\ i # j /\ i < next /\ j < next
                                      /\ IsInline(i) <=> IsInline(j)
                                      /\ Declared(i) \cap Declared(j) # {}
  BY DEF Clash
<1>3. i < next' /\ j < next'
  BY <1>1, <1>2
<1> QED BY <1>2, <1>3, SameInput DEF Clash

LEMMA TakeInlineClashes ==
    ASSUME TypeInv, Sorted, TakeInline, UNCHANGED <<input, components, schemas>>
    PROVE  issues' # issues => Clash'
<1>1. next \in Given /\ next \in Nat /\ next' = next + 1 /\ IsInline(next)
  BY InputsAreTyped DEF TakeInline, Collecting, TypeInv, Located
<1> SUFFICES ASSUME InlineTwice(next) PROVE Clash'
  BY DEF TakeInline
<1>2. PICK j \in inline : Identity(input.parameters[j]) = Identity(input.parameters[next])
  BY DEF InlineTwice
<1>3. j \in Given /\ j < next /\ IsInline(j) /\ j \in Nat
  BY InputsAreTyped DEF Sorted, TypeInv, OperationTypeOK, Located
<1>4. Declared(j) = Declared(next) /\ Declared(j) # {}
  BY <1>1, <1>2, <1>3, InlineDeclares
<1>5. j # next /\ j < next' /\ next < next'
  BY <1>1, <1>3
<1> QED BY <1>1, <1>3, <1>4, <1>5, SameInput DEF Clash

LEMMA NoteReferenceClashes ==
    ASSUME TypeInv, ReferencesInv, Sorted, NoteReference, UNCHANGED <<input, components, schemas>>
    PROVE  issues' # issues => Clash'
<1>1. next \in Given /\ next \in Nat /\ next' = next + 1 /\ ~IsInline(next)
  BY InputsAreTyped DEF NoteReference, TypeInv, Located
<1> SUFFICES ASSUME KnownKey # NoKey, ReferenceTwice(KnownKey) PROVE Clash'
  BY DEF NoteReference
<1>2. PICK j \in named : keys[j] = KnownKey
  BY DEF ReferenceTwice
<1>3. j \in Given /\ j < next /\ ~IsInline(j) /\ j \in Nat
  BY InputsAreTyped DEF Sorted, TypeInv, OperationTypeOK, Located
<1>4. Declared(j) = {KnownKey} /\ Declared(next) = {KnownKey}
  <2>1. Declared(j) = {keys[j]} \ {NoKey}
    BY <1>3 DEF Sorted
  <2> QED BY <1>2, <2>1, NotedDeclares
<1>5. j # next /\ j < next' /\ next < next'
  BY <1>1, <1>3
<1> QED BY <1>1, <1>3, <1>4, <1>5, SameInput DEF Clash

\* Merging has nothing to report exactly if sorting had not, no key has both an inline
\* and a referenced parameter, none strays from the path and none needs a schema.
MergesQuietly == issues = {} /\ Both = {} /\ Strays = {} /\ Uninferable = {}

LEMMA MergeIssues ==
    ASSUME Merge
    PROVE  issues' = {} <=> MergesQuietly
<1>1. issues' = issues \cup ({"both"} \X Both) \cup ({"stray"} \X Strays)
                       \cup ({"schema"} \X Uninferable)
  BY DEF Merge
<1>2. /\ {"both"} \X Both = {} <=> Both = {}
      /\ {"stray"} \X Strays = {} <=> Strays = {}
      /\ {"schema"} \X Uninferable = {} <=> Uninferable = {}
  BY ProductIsEmpty
<1> DEFINE A == {"both"} \X Both
           B == {"stray"} \X Strays
           C == {"schema"} \X Uninferable
<1> HIDE DEF A, B, C
<1>3. issues' = issues \cup A \cup B \cup C
  BY <1>1 DEF A, B, C
<1>4. issues' = {} <=> issues = {} /\ A = {} /\ B = {} /\ C = {}
  BY <1>3
<1> QED BY <1>2, <1>4 DEF A, B, C, MergesQuietly

\* Where everything was looked at, each parameter was sorted by what it declares.
LEMMA AllIsSorted ==
    ASSUME TypeInv, Sorted, next \notin Given
    PROVE  /\ \A i \in Given : i < next
           /\ \A i \in Given : ~IsInline(i) => Declared(i) = {keys[i]} \ {NoKey}
           /\ \A i \in Given : keys[i] \in Keys \cup {NoKey}
<1>1. Given = 1 .. Len(input.parameters) /\ Len(input.parameters) \in Nat /\ next \in Nat
  BY InputsAreTyped DEF TypeInv, Located, OperationTypeOK
<1>2. \A i \in Given : i < next
  BY <1>1 DEF TypeInv, OperationTypeOK
<1> QED BY <1>2 DEF Sorted, TypeInv, OperationTypeOK

LEMMA CleanUninferable ==
    ASSUME Clean, Distinct
    PROVE  Uninferable = {} <=> \A name \in input.unportable : ~Needy(name)
<1>0. input.unportable \subseteq input.path
  BY OperationAssumption DEF Clean, TypeInv, Located
<1>1. ASSUME NEW name \in input.unportable
      PROVE  name \in Uninferable <=> Needy(name)
  <2>1. name \in input.path /\ PathKey(name) \in Keys
    BY <1>0, PathKeys DEF Clean
  <2> DEFINE D == {i \in Given : PathKey(name) \in Declared(i)}
             lacking == {i \in D : IsInline(i) /\ ~input.parameters[i].schema}
  <2>2. <<"inferred", name>> \in PathEntries <=> D = {}
    BY <2>1, PathLoop
  <2>3. \A i \in InlineOf(PathKey(name)) : i \in D /\ IsInline(i)
    BY <2>1, CleanKeys
  <2>4. \A i \in D : IsInline(i) => i \in InlineOf(PathKey(name))
    BY <2>1, CleanKeys
  <2>5. name \in Uninferable <=> D = {} \/ lacking # {}
    BY <2>2, <2>3, <2>4 DEF Uninferable
  <2>6. \A i, j \in D : i = j
    BY DEF Distinct, Declared
  <2>7. Needy(name) <=> \A i \in D : i \in lacking
    BY DEF Needy, Declared
  <2> HIDE DEF D
  <2> QED BY <2>5, <2>6, <2>7
<1> QED BY <1>1 DEF Uninferable

LEMMA CleanIsOnThePath ==
    ASSUME Clean
    PROVE  OnThePath
<1> DEFINE entries == PathEntries \cup InlineEntries \cup ReferenceEntries
<1> SUFFICES ASSUME NEW i \in Given, NEW key \in Declared(i), key[1] = "path"
             PROVE  key[2] \in input.path
  BY DEF OnThePath, Declared
<1>1. FitsPath(entries)
  BY CleanFits
<1> HIDE DEF entries
<1>2. PICK loop \in Loops : <<loop, i>> \in entries
  BY <1>1 DEF FitsPath
<1>3. key \in DeclaredBy(<<loop, i>>)
  BY <1>2 DEF DeclaredBy, Declared, Loops
<1> QED BY <1>1, <1>2, <1>3 DEF FitsPath

(***************************************************************************)
(* For parameters that are distinct and on the path, sorting and merging  *)
(* have nothing to report, but for the schemas they cannot infer.          *)
(***************************************************************************)
LEMMA SoundIsClean ==
    ASSUME TypeInv, Sorted, next \notin Given, issues = {} \/ Clash, Distinct, OnThePath
    PROVE  Clean
<1> USE AllIsSorted
<1>1. issues = {}
  BY DEF Clash, Distinct, Declared
<1>2. Both = {}
  <2> SUFFICES ASSUME NEW j \in named, NEW i \in InlineOf(keys[j]) PROVE FALSE
    BY DEF Both
  <2>1. j \in Given /\ ~IsInline(j) /\ keys[j] \in Declared(j)
    BY DEF Sorted, TypeInv, OperationTypeOK
  <2>2. i \in Given /\ IsInline(i) /\ Identity(input.parameters[i]) = keys[j]
    BY DEF InlineOf, Sorted, TypeInv, OperationTypeOK
  <2>3. keys[j] \in Declared(i)
    BY <2>2, InlineDeclares
  <2> QED BY <2>1, <2>2, <2>3 DEF Distinct, Declared
<1>3. ASSUME NEW i \in Given, ~IsInline(i), StrayReference(i) PROVE FALSE
  <2>1. keys[i] \in Declared(i) /\ keys[i][1] = "path" /\ keys[i][2] \notin input.path
    BY <1>3 DEF StrayReference, InPath
  <2> QED BY <2>1 DEF OnThePath, Declared
<1>4. ASSUME NEW i \in Given, InlinePath(i), input.parameters[i].name \notin input.path PROVE FALSE
  <2>1. /\ IsInline(i) /\ input.parameters[i] \in Declarations
        /\ Identity(input.parameters[i]) = PathKey(input.parameters[i].name)
    BY <1>4, IdentityIsKey DEF InlinePath, IsInline
  <2>2. PathKey(input.parameters[i].name) \in Declared(i)
    BY <2>1, InlineDeclares
  <2> QED BY <1>4, <2>2 DEF OnThePath, Declared, PathKey
<1>5. Strays = {}
  BY <1>3, <1>4 DEF Strays
<1> QED BY <1>1, <1>2, <1>5 DEF Clean

LEMMA MergeIsExact ==
    ASSUME TypeInv, Sorted, Staged, ExactSoFar, Merge
    PROVE  issues' = {} <=> MergesSoundly
<1>0. input.kind = "route" /\ next \notin Given /\ (issues = {} \/ Clash)
  BY DEF Merge, Staged, ExactSoFar
<1>1. ASSUME MergesQuietly PROVE MergesSoundly
  <2>1. Clean
    BY <1>0, <1>1 DEF MergesQuietly, Clean
  <2>2. Distinct
    BY <2>1, CleanIsDistinct DEF Distinct, Declared
  <2>3. Uninferable = {}
    BY <1>1 DEF MergesQuietly
  <2> QED BY <1>0, <2>1, <2>2, <2>3, CleanUninferable, CleanIsOnThePath DEF MergesSoundly
<1>2. ASSUME MergesSoundly PROVE MergesQuietly
  <2>1. Distinct /\ OnThePath /\ \A name \in input.unportable : ~Needy(name)
    BY <1>0, <1>2 DEF MergesSoundly
  <2>2. Clean
    BY <1>0, <2>1, SoundIsClean
  <2>3. Uninferable = {}
    BY <2>1, <2>2, CleanUninferable
  <2> QED BY <2>2, <2>3 DEF Clean, MergesQuietly
<1> QED BY <1>1, <1>2, MergeIssues

LEMMA MergeWritesAll ==
    ASSUME TypeInv, Sorted, Merge, issues' = {}
    PROVE  /\ \A i \in Given : \E loop \in Loops : <<loop, i>> \in result'
           /\ \A i \in Given : <<"inline", i>> \in result' <=> IsInline(i) /\ ~InlinePath(i)
<1> DEFINE entries == PathEntries \cup InlineEntries \cup ReferenceEntries
<1>1. Clean /\ result' = entries
  BY MergeIssues DEF MergesQuietly, Clean, Merge
<1>2. FitsPath(entries)
  BY <1>1, CleanFits
<1>3. \A i \in Given : <<"inline", i>> \in entries <=> IsInline(i) /\ ~InlinePath(i)
  BY <1>1, PathLoop, InlineLoop, ReferenceLoop
<1> QED BY <1>1, <1>2, <1>3 DEF FitsPath

LEMMA ParametersAreExact ==
    ASSUME TypeInv, issues = {} <=> MergesSoundly,
           issues = {} =>
                /\ Written = Given
                /\ \A i \in Given : <<"inline", i>> \in result <=> IsInline(i) /\ ~InlinePath(i)
    PROVE  issues \cup ParameterIssues = {} <=> ParametersAreSound
<1> DEFINE missing == {j \in Written : input.parameters[j] = Missing}
           bare == {j \in Given : <<"inline", j>> \in result /\ ~input.parameters[j].schema}
<1>1. ParameterIssues = {} <=> missing = {} /\ bare = {}
  <2>1. ParameterIssues = {<<"missing", i>> : i \in missing} \cup {<<"schema", i>> : i \in bare}
    BY DEF ParameterIssues
  <2> HIDE DEF missing, bare
  <2> QED BY <2>1
<1>2. ASSUME issues = {}
      PROVE  /\ missing = {} <=> \A i \in Given : input.parameters[i] # Missing
             /\ bare = {} <=> \A i \in Given :
                                  IsInline(i) /\ ~InlinePath(i) => input.parameters[i].schema
  BY <1>2
<1>3. ParametersAreSound <=>
          /\ MergesSoundly
          /\ \A i \in Given : input.parameters[i] # Missing
          /\ \A i \in Given : IsInline(i) /\ ~InlinePath(i) => input.parameters[i].schema
  <2>1. CASE input.kind = "route"
    BY <2>1 DEF ParametersAreSound, MergesSoundly, RouteIsSound
  <2>2. CASE input.kind # "route"
    <3>1. \A i : InlinePath(i) => IsInline(i)
      BY DEF InlinePath
    <3> QED BY <2>2, <3>1 DEF ParametersAreSound, MergesSoundly, WebhookPasses
  <2> QED BY <2>1, <2>2
<1> HIDE DEF missing, bare
<1> QED BY <1>1, <1>2, <1>3

LEMMA SchemeIsExact ==
    ASSUME TypeInv, Staged, ReferencesInv, NEW r \in Requirement, r.scheme \in SchemeNames,
           asked = {r}, origin = components[r.scheme], ~Running
    PROVE  UndeclaredScopes = {} <=> RequirementIsSound(r)
<1>0. SchemeNames \subseteq Names /\ Missing \notin Names
  BY OperationAssumption, ReferencesAssumption
<1>1. verdict \in {"known", "unknown"}
  BY DEF Running, TypeInv, OperationTypeOK, ReferencesTypeOK
<1>2. Ends(origin) = IF verdict = "known" THEN {current} ELSE {}
  BY <1>1, InvIsExact DEF ResolutionIsExact
<1>3. \A s \in Concretes : LeadsTo(r.scheme, s) <=> verdict = "known" /\ s = current
  BY <1>0, <1>1, <1>2, NameLeadsOn DEF Ends
<1>4. verdict = "known" => current \in Concretes /\ current \in Schemes
  BY <1>2, SchemesLeadToSchemes DEF Ends
<1>5. RequirementIsSound(r) <=>
          (verdict = "known" /\ current.type = "oauth2" => r.scopes \subseteq current.scopes)
  BY <1>0, <1>3, <1>4 DEF RequirementIsSound
<1> DEFINE lacking == {q \in asked : ~(q.scopes \subseteq current.scopes)}
<1>6. lacking = {} <=> r.scopes \subseteq current.scopes
  OBVIOUS
<1> HIDE DEF lacking
<1>7. {<<"scope", q>> : q \in lacking} = {} <=> lacking = {}
  OBVIOUS
<1>8. UndeclaredScopes =
          IF verdict = "known" /\ current.type = "oauth2" THEN {<<"scope", q>> : q \in lacking} ELSE {}
  BY DEF UndeclaredScopes, lacking
<1> QED BY <1>5, <1>6, <1>7, <1>8

\* A property is reported if nobody declares it and all of the schema is at hand, or if
\* a reference leads nowhere, which is reported of the components.
LEMMA ReportIsExact ==
    ASSUME EncodingsInv, SilenceInv, ~Walking,
           outcome = "error" => \E n \in Nodes : schemas[n].ref = Nowhere
    PROVE  (ComponentIssues = {} /\ ~Reported(outcome))
              <=> (ComponentIssues = {} /\ EncodingIsSound(property))
<1>1. outcome \in {"declared", "undeclared", "uninspectable", "error"}
  BY DEF Walking, EncodingsInv, EncodingsTypeOK, Outcomes
<1>2. WalkIsSound /\ SilenceExplained
  BY InvIsSound, SilenceInvExplains
<1>3. CASE outcome = "declared"
  BY <1>2, <1>3 DEF WalkIsSound, EncodingIsSound, Reported
<1>4. CASE outcome = "undeclared"
  BY <1>2, <1>4 DEF WalkIsSound, SilenceExplained, EncodingIsSound, Reported
<1>5. CASE outcome = "uninspectable"
  BY <1>2, <1>5 DEF SilenceExplained, EncodingIsSound, Reported
<1>6. CASE outcome = "error"
  <2>1. PICK n \in Nodes : schemas[n].ref = Nowhere
    BY <1>6
  <2>2. <<"schema", n>> \in ComponentIssues
    BY <2>1 DEF ComponentIssues
  <2> QED BY <2>2
<1> QED BY <1>1, <1>3, <1>4, <1>5, <1>6

-----------------------------------------------------------------------------
(* The invariant, and the steps. *)

LEMMA AcceptanceInit == OperationInit => AcceptanceInv
<1> SUFFICES ASSUME OperationInit PROVE AcceptanceInv
  OBVIOUS
<1>1. input.kind \in {"route", "webhook"}
  BY OperationAssumption DEF OperationInit
<1>2. Staged
  BY <1>1 DEF OperationInit, Staged
<1>3. ExactSoFar
  BY DEF OperationInit, ExactSoFar
<1> QED BY <1>2, <1>3 DEF AcceptanceInv

LEMMA StageStep ==
    ASSUME Staged, TypeInv, [OperationNext]_operationVars
    PROVE  Staged'
<1> USE DEF Staged
<1>0. UNCHANGED <<input, components, schemas>>
  BY InputStays
<1>1. CASE RefuseWebhook \/ TakeWebhook
  BY <1>0, <1>1 DEF RefuseWebhook, TakeWebhook, checking
<1>2. CASE TakeInline \/ AskReference \/ NoteReference
  BY <1>0, <1>2 DEF TakeInline, AskReference, NoteReference, Collecting, checking
<1>3. CASE Merge \/ ValidateParameters
  BY <1>0, <1>3 DEF Merge, ValidateParameters, checking
<1>4. ASSUME NEW r \in Requirement, MissScheme(r) PROVE Staged'
  BY <1>0, <1>4 DEF MissScheme
<1>5. ASSUME NEW r \in Requirement, AskScheme(r) PROVE Staged'
  <2>1. r \in input.security \ security' /\ r.scheme \in SchemeNames
    BY <1>5 DEF AskScheme, Requirement
  <2> QED BY <1>0, <1>5, <2>1 DEF AskScheme, Begin
<1>6. CASE NoteScheme \/ ValidateComponents
  BY <1>0, <1>6 DEF NoteScheme, ValidateComponents, checking
<1>7. ASSUME NEW p \in Properties, AskProperty(p) PROVE Staged'
  BY <1>0, <1>7 DEF AskProperty, BeginWalk
<1>8. CASE NoteProperty \/ Finish
  BY <1>0, <1>8 DEF NoteProperty, Finish, checking
<1>9. CASE Recur /\ UNCHANGED <<input, phase, merging, checking, issues>>
  <2>1. UNCHANGED origin
    BY <1>9 DEF Recur, Resolve, SettleKnown, SettleUnknown, Follow, referencesVars, resolution
  <2>2. UNCHANGED property
    BY <1>9 DEF Recur, encodingsVars, walk, Walk, FindProperty, VisitPlain, SkipReference,
                FollowReference, FailWalk, EndWalk
  <2>3. ASSUME outcome' = "error" PROVE outcome = "error" \/ \E n \in Nodes : schemas[n].ref = Nowhere
    <3>1. CASE FailWalk
      <4>1. Head(todo) \in Nodes
        BY <3>1, ElementsOfTail DEF FailWalk, Searching, AtObject, TypeInv, OperationTypeOK,
           EncodingsTypeOK
      <4> QED BY <3>1, <4>1 DEF FailWalk, Here
    <3>2. CASE UNCHANGED encodingsVars
      BY <2>3, <3>2 DEF encodingsVars, walk
    <3> QED
      BY <1>9, <2>3, <3>1, <3>2
         DEF Recur, Walk, FindProperty, VisitPlain, SkipReference, FollowReference, EndWalk
  <2> QED BY <1>0, <1>9, <2>1, <2>2, <2>3 DEF checking
<1>10. CASE UNCHANGED operationVars
  BY <1>0, <1>10 DEF operationVars, referencesVars, resolution, encodingsVars, walk, checking
<1> QED BY <1>1, <1>2, <1>3, <1>4, <1>5, <1>6, <1>7, <1>8, <1>9, <1>10 DEF OperationNext

\* The phases in which parameters are sorted, and those in which they are not.
LEMMA ExactWhileMerging ==
    ASSUME AcceptanceInv, FitInv, TypeInv, ReferencesInv,
           \/ RefuseWebhook \/ TakeWebhook \/ TakeInline \/ AskReference \/ NoteReference \/ Merge
    PROVE  ExactSoFar'
<1>0. /\ UNCHANGED <<input, components, schemas>>
      /\ Staged /\ ExactSoFar /\ Sorted
  BY InputStays DEF OperationNext, AcceptanceInv, FitInv
<1> USE DEF ExactSoFar
<1>1. CASE RefuseWebhook
  <2>1. input.kind # "route" /\ issues' # {} /\ phase' = "done"
    BY <1>1 DEF RefuseWebhook, TypeInv, Located
  <2>2. ~ParametersAreSound
    BY <1>1, <2>1 DEF RefuseWebhook, ParametersAreSound, WebhookPasses, InlinePath
  <2>3. ~ParametersAreSound'
    BY <1>0, <2>2, SameInput
  <2> QED BY <2>1, <2>3
<1>2. CASE TakeWebhook
  <2>1. /\ input.kind # "route" /\ issues' = {} /\ phase' = "parameters"
        /\ MergesSoundly
    BY <1>0, <1>2 DEF TakeWebhook, TypeInv, Located, MergesSoundly
  <2>2. \A i \in Given : <<Loop(i), i>> \in result'
    BY <1>2 DEF TakeWebhook
  <2>3. Written' = Given
    BY <1>0, <2>2 DEF Written, Given, Loop
  <2>4. \A i \in Given : <<"inline", i>> \in result' <=> IsInline(i) /\ ~InlinePath(i)
    BY <1>2 DEF TakeWebhook, Loop
  <2>5. MergesSoundly'
    BY <1>0, <2>1, SameInput
  <2>6. Given' = Given
        /\ \A i : (IsInline(i)' <=> IsInline(i)) /\ (InlinePath(i)' <=> InlinePath(i))
    BY <1>0, SameInput
  <2> QED BY <2>1, <2>3, <2>4, <2>5, <2>6
<1>3. CASE TakeInline
  <2>1. phase' = "collect" /\ phase = "collect" /\ next' \in {next, next + 1}
    BY <1>3 DEF TakeInline, Collecting
  <2>2. issues' = {} \/ Clash'
    BY <1>0, <1>3, <2>1, TakeInlineClashes, ClashGrows
  <2> QED BY <2>1, <2>2
<1>4. CASE AskReference
  <2>1. phase' = "resolve" /\ phase = "collect" /\ next' = next /\ issues' = issues
    BY <1>4 DEF AskReference, Collecting, merging
  <2>2. issues' = {} \/ Clash'
    BY <1>0, <2>1, ClashGrows
  <2> QED BY <2>1, <2>2
<1>5. CASE NoteReference
  <2>1. phase' = "collect" /\ phase = "resolve" /\ next' \in {next, next + 1}
    BY <1>5 DEF NoteReference
  <2>2. issues' = {} \/ Clash'
    BY <1>0, <1>5, <2>1, NoteReferenceClashes, ClashGrows
  <2> QED BY <2>1, <2>2
<1>6. CASE Merge
  <2>1. phase' = "parameters"
    BY <1>6 DEF Merge
  <2>2. issues' = {} <=> MergesSoundly'
    BY <1>0, <1>6, MergeIsExact, SameInput
  <2>3. Given' = Given
        /\ \A i : (IsInline(i)' <=> IsInline(i)) /\ (InlinePath(i)' <=> InlinePath(i))
    BY <1>0, SameInput
  <2>4. ASSUME issues' = {}
        PROVE  /\ Written' = Given
               /\ \A i \in Given : <<"inline", i>> \in result' <=> IsInline(i) /\ ~InlinePath(i)
    BY <1>0, <1>6, <2>3, <2>4, MergeWritesAll DEF Written, Loops
  <2> QED BY <2>1, <2>2, <2>3, <2>4
<1> QED BY <1>1, <1>2, <1>3, <1>4, <1>5, <1>6

LEMMA ExactWhileSecuring ==
    ASSUME AcceptanceInv, TypeInv, ReferencesInv,
           \/ ValidateParameters
           \/ \E r \in Requirement : MissScheme(r) \/ AskScheme(r)
           \/ NoteScheme
           \/ ValidateComponents
    PROVE  ExactSoFar'
<1>0. /\ UNCHANGED <<input, components, schemas>>
      /\ Staged /\ ExactSoFar
  BY InputStays DEF OperationNext, AcceptanceInv
<1>a. /\ ParametersAreSound' <=> ParametersAreSound
      /\ \A r : RequirementIsSound(r)' <=> RequirementIsSound(r)
      /\ ComponentIssues' = ComponentIssues
      /\ input' = input
  BY <1>0, SameInput
<1>1. CASE ValidateParameters
  <2>1. /\ phase = "parameters" /\ phase' = "security" /\ issues' = issues \cup ParameterIssues
        /\ security' = security /\ asked' = asked
    BY <1>1 DEF ValidateParameters, checking
  <2>2. issues' = {} <=> ParametersAreSound
    BY <1>0, <2>1, ParametersAreExact DEF ExactSoFar
  <2>3. CheckedSecurity' = {}
    BY <1>0, <2>1 DEF Staged, CheckedSecurity
  <2> QED BY <1>a, <2>1, <2>2, <2>3 DEF ExactSoFar
<1>2. ASSUME NEW r \in Requirement, MissScheme(r) PROVE ExactSoFar'
  <2>1. /\ phase' = "security" /\ issues' # {} /\ ~RequirementIsSound(r)
    BY <1>2 DEF MissScheme, RequirementIsSound
  <2>2. r \in CheckedSecurity'
    BY <1>0, <1>2 DEF MissScheme, Staged, CheckedSecurity
  <2> QED BY <1>a, <2>1, <2>2 DEF ExactSoFar
<1>3. ASSUME NEW r \in Requirement, AskScheme(r) PROVE ExactSoFar'
  <2>1. phase = "security" /\ phase' = "scheme" /\ issues' = issues
    BY <1>3 DEF AskScheme
  <2>2. CheckedSecurity' = CheckedSecurity
    BY <1>0, <1>3 DEF AskScheme, Staged, CheckedSecurity
  <2> QED BY <1>0, <1>a, <2>1, <2>2 DEF ExactSoFar
<1>4. CASE NoteScheme
  <2>1. PICK r \in input.security \ security :
            asked = {r} /\ r.scheme \in SchemeNames /\ origin = components[r.scheme]
    BY <1>0, <1>4 DEF NoteScheme, Staged
  <2>2. /\ phase = "scheme" /\ phase' = "security" /\ issues' = issues \cup UndeclaredScopes
        /\ ~Running
    BY <1>4 DEF NoteScheme
  <2>3. r \in Requirement
    BY <2>1, InputsAreTyped DEF TypeInv, Located
  <2>4. UndeclaredScopes = {} <=> RequirementIsSound(r)
    BY <1>0, <2>1, <2>2, <2>3, SchemeIsExact
  <2>5. CheckedSecurity' = CheckedSecurity \cup {r}
    BY <1>a, <1>4, <2>1 DEF NoteScheme, CheckedSecurity
  <2>6. issues = {} <=> ParametersAreSound /\ \A q \in CheckedSecurity : RequirementIsSound(q)
    BY <1>0, <2>2 DEF ExactSoFar
  <2>7. issues' = {} <=> issues = {} /\ UndeclaredScopes = {}
    BY <2>2
  <2>8. issues' = {} <=> ParametersAreSound /\ \A q \in CheckedSecurity' : RequirementIsSound(q)
    BY <2>4, <2>5, <2>6, <2>7
  <2> QED BY <1>a, <2>2, <2>8 DEF ExactSoFar
<1>5. CASE ValidateComponents
  <2>1. /\ phase = "security" /\ phase' = "body" /\ issues' = issues \cup ComponentIssues
        /\ security = {} /\ asked = {}
    BY <1>0, <1>5 DEF ValidateComponents, Staged
  <2>2. CheckedSecurity = input.security
    BY <2>1 DEF CheckedSecurity
  <2>3. CheckedEncodings' = {}
    BY <1>0, <1>5, <2>1 DEF ValidateComponents, checking, Staged, CheckedEncodings
  <2>4. issues' = {} <=> issues = {} /\ ComponentIssues = {}
    BY <2>1
  <2>5. issues = {} <=> ParametersAreSound /\ \A r \in input.security : RequirementIsSound(r)
    BY <1>0, <2>1, <2>2 DEF ExactSoFar
  <2> QED BY <1>a, <2>1, <2>3, <2>4, <2>5 DEF ExactSoFar
<1> QED BY <1>1, <1>2, <1>3, <1>4, <1>5

LEMMA ExactInTheBody ==
    ASSUME AcceptanceInv, TypeInv, EncodingsInv, SilenceInv,
           (\E p \in Properties : AskProperty(p)) \/ NoteProperty \/ Finish
    PROVE  ExactSoFar'
<1>0. /\ UNCHANGED <<input, components, schemas>>
      /\ Staged /\ ExactSoFar
  BY InputStays DEF OperationNext, AcceptanceInv
<1>a. /\ ParametersAreSound' <=> ParametersAreSound
      /\ \A r : RequirementIsSound(r)' <=> RequirementIsSound(r)
      /\ ComponentIssues' = ComponentIssues
      /\ \A p : EncodingIsSound(p)' <=> EncodingIsSound(p)
      /\ input' = input
  BY <1>0, SameInput
<1>1. ASSUME NEW p \in Properties, AskProperty(p) PROVE ExactSoFar'
  <2>1. phase = "body" /\ phase' = "walk" /\ issues' = issues /\ property' = p
    BY <1>1 DEF AskProperty, BeginWalk
  <2>2. CheckedEncodings' = CheckedEncodings
    BY <1>0, <1>1, <2>1 DEF AskProperty, CheckedEncodings
  <2> QED BY <1>0, <1>a, <2>1, <2>2 DEF ExactSoFar
<1>2. CASE NoteProperty
  <2>1. /\ phase = "walk" /\ phase' = "body" /\ ~Walking
        /\ issues' = issues \cup (IF Reported(outcome) THEN {<<"property", property>>} ELSE {})
    BY <1>2 DEF NoteProperty
  <2>2. issues' = {} <=> issues = {} /\ ~Reported(outcome)
    BY <2>1
  <2>3. CheckedEncodings' = CheckedEncodings \cup {property}
    BY <1>0, <1>2, <2>1 DEF NoteProperty, Staged, checking, CheckedEncodings
  <2>4. (ComponentIssues = {} /\ ~Reported(outcome))
            <=> (ComponentIssues = {} /\ EncodingIsSound(property))
    BY <1>0, <2>1, ReportIsExact DEF Staged
  <2>5. issues = {} <=> /\ ParametersAreSound
                        /\ \A r \in input.security : RequirementIsSound(r)
                        /\ ComponentIssues = {}
                        /\ \A p \in CheckedEncodings : EncodingIsSound(p)
    BY <1>0, <2>1 DEF ExactSoFar
  <2>6. issues' = {} <=> /\ ParametersAreSound
                         /\ \A r \in input.security : RequirementIsSound(r)
                         /\ ComponentIssues = {}
                         /\ \A p \in CheckedEncodings' : EncodingIsSound(p)
    BY <2>2, <2>3, <2>4, <2>5
  <2> QED BY <1>a, <2>1, <2>6 DEF ExactSoFar
<1>3. CASE Finish
  <2>1. phase = "body" /\ phase' = "done" /\ issues' = issues /\ encodings = {}
    BY <1>3 DEF Finish
  <2>2. CheckedEncodings = input.encodings
    BY <2>1 DEF CheckedEncodings
  <2> QED BY <1>0, <1>a, <2>1, <2>2 DEF ExactSoFar
<1> QED BY <1>1, <1>2, <1>3

LEMMA ExactMeanwhile ==
    ASSUME AcceptanceInv, TypeInv, [OperationNext]_operationVars,
           UNCHANGED <<phase, merging, checking, issues, property>>
    PROVE  ExactSoFar'
<1>0. /\ UNCHANGED <<input, components, schemas>> /\ ExactSoFar
      /\ UNCHANGED <<phase, next, result, encodings, security, asked, issues, property>>
  BY InputStays DEF AcceptanceInv, merging, checking
<1>1. /\ ParametersAreSound' <=> ParametersAreSound
      /\ MergesSoundly' <=> MergesSoundly
      /\ \A r : RequirementIsSound(r)' <=> RequirementIsSound(r)
      /\ ComponentIssues' = ComponentIssues
      /\ \A p : EncodingIsSound(p)' <=> EncodingIsSound(p)
      /\ Given' = Given
      /\ \A i : (IsInline(i)' <=> IsInline(i)) /\ (InlinePath(i)' <=> InlinePath(i))
  BY <1>0, SameInput
<1>2. Clash => Clash'
  BY <1>0, ClashGrows
<1>3. CheckedSecurity' = CheckedSecurity /\ CheckedEncodings' = CheckedEncodings
  BY <1>0 DEF CheckedSecurity, CheckedEncodings
<1>4. Written' = Written
  BY <1>0, <1>1 DEF Written
<1> QED BY <1>0, <1>1, <1>2, <1>3, <1>4 DEF ExactSoFar

LEMMA AcceptanceStep ==
    ASSUME AcceptanceInv, FitInv, TypeInv, ReferencesInv, EncodingsInv, SilenceInv,
           [OperationNext]_operationVars
    PROVE  AcceptanceInv'
<1>1. Staged'
  BY StageStep DEF AcceptanceInv
<1>2. CASE UNCHANGED operationVars \/ (Recur /\ UNCHANGED <<input, phase, merging, checking, issues>>)
  <2>1. UNCHANGED property
    BY <1>2 DEF Recur, operationVars, encodingsVars, walk, Walk, FindProperty, VisitPlain,
                SkipReference, FollowReference, FailWalk, EndWalk
  <2>2. UNCHANGED <<phase, merging, checking, issues>>
    BY <1>2 DEF operationVars, merging, checking
  <2> QED BY <1>1, <2>1, <2>2, ExactMeanwhile DEF AcceptanceInv
<1>3. CASE \/ RefuseWebhook \/ TakeWebhook \/ TakeInline \/ AskReference \/ NoteReference \/ Merge
  BY <1>1, <1>3, ExactWhileMerging DEF AcceptanceInv
<1>4. CASE \/ ValidateParameters
           \/ \E r \in Requirement : MissScheme(r) \/ AskScheme(r)
           \/ NoteScheme
           \/ ValidateComponents
  BY <1>1, <1>4, ExactWhileSecuring DEF AcceptanceInv
<1>5. CASE (\E p \in Properties : AskProperty(p)) \/ NoteProperty \/ Finish
  BY <1>1, <1>5, ExactInTheBody DEF AcceptanceInv
<1> QED BY <1>2, <1>3, <1>4, <1>5 DEF OperationNext

LEMMA AcceptanceHolds == OperationSpec => []AcceptanceInv
<1>1. AcceptanceInv /\ FitInv /\ TypeInv /\ (ReferencesInv /\ EncodingsInv)
        /\ (EncodingsInv /\ SilenceInv) /\ [OperationNext]_operationVars
          => AcceptanceInv'
  BY AcceptanceStep
<1> QED
  BY <1>1, AcceptanceInit, FitHolds, TypeHolds, PartsHold, ImplementsEncodings, SilenceHolds, PTL
     DEF OperationSpec

\* A webhook without path parameters passes, and one whose parameters are inline does only then.
LEMMA WebhooksPass ==
    ASSUME TypeInv
    PROVE  /\ WebhookIsSound => WebhookPasses
           /\ WebhookPasses /\ Distinct /\ (\A i \in Given : IsInline(i)) => WebhookIsSound
<1>1. ASSUME NEW i \in Given, IsInline(i)
      PROVE  InlinePath(i) <=> \E key \in Declares(input.parameters[i]) : key[1] = "path"
  <2>1. Declares(input.parameters[i]) = {Identity(input.parameters[i])}
    BY <1>1, InlineDeclares DEF Declared
  <2>2. Identity(input.parameters[i])[1] = input.parameters[i].in
    BY DEF Identity
  <2> QED BY <1>1, <2>1, <2>2 DEF InlinePath
<1> QED BY <1>1 DEF WebhookIsSound, WebhookPasses, NoPathParameter

(***************************************************************************)
(* Every sound operation is accepted, and every accepted one of which all *)
(* is in sight is sound, whatever order the requirements are checked in   *)
(* and whatever the references look like.                                  *)
(***************************************************************************)
THEOREM AcceptsExactly == OperationSpec => []AcceptanceIsExact
<1>1. ASSUME AcceptanceInv, TypeInv, Done PROVE AcceptanceIsExact
  <2>1. issues = {} <=> /\ ParametersAreSound
                        /\ \A r \in input.security : RequirementIsSound(r)
                        /\ ComponentIssues = {}
                        /\ \A p \in input.encodings : EncodingIsSound(p)
    BY <1>1 DEF AcceptanceInv, ExactSoFar, Done
  <2>2. EncodingsAreSound => \A p \in input.encodings : EncodingIsSound(p)
    BY DEF EncodingsAreSound, EncodingIsSound, Hidden
  <2>3. (\A p \in input.encodings : EncodingIsSound(p)) /\ InSight => EncodingsAreSound
    BY DEF EncodingsAreSound, EncodingIsSound, Hidden, InSight
  <2>4. Sound => ParametersAreSound
    BY <1>1, WebhooksPass DEF Sound, ParametersAreSound
  <2>5. ParametersAreSound /\ InSight =>
            /\ IF input.kind = "route" THEN RouteIsSound ELSE WebhookIsSound
            /\ \A i \in Given : input.parameters[i] # Missing
    <3>1. input.kind \in {"route", "webhook"}
      BY <1>1, OperationAssumption DEF TypeInv, Located
    <3> QED BY <1>1, <3>1, WebhooksPass DEF ParametersAreSound, InSight
  <2>6. Sound => issues = {}
    BY <2>1, <2>2, <2>4 DEF Sound
  <2>7. issues = {} /\ InSight => Sound
    BY <2>1, <2>3, <2>5 DEF Sound
  <2> QED BY <2>6, <2>7 DEF AcceptanceIsExact
<1>2. AcceptanceInv /\ TypeInv => AcceptanceIsExact
  BY <1>1 DEF AcceptanceIsExact
<1> QED BY <1>2, AcceptanceHolds, TypeHolds, PTL

(***************************************************************************)
(* In the making of an operation too an undeclared encoding is reported   *)
(* unless part of the schema is in another document, if no reference is   *)
(* met twice.                                                              *)
(***************************************************************************)
THEOREM OperationReportsUndeclared == OperationSpec => []UndeclaredIsReported
BY ImplementsEncodings, UndeclaredAreReported, PTL

=============================================================================
