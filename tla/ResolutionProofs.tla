-------------------------- MODULE ResolutionProofs --------------------------
(***************************************************************************)
(* The two recursions of the generator over what components refer to.      *)
(* Resolution is exact and makes progress, for any number of components    *)
(* and any references between them; the search of a schema for a property  *)
(* finds what is there, for schemas of any size and references of any      *)
(* shape.                                                                  *)
(***************************************************************************)
EXTENDS References, Encodings, TLAPS


(***************************************************************************)
(* The names passed are among those of every trail from the origin, and   *)
(* so is what the next call is about: what is found is what the origin    *)
(* leads to.  Conversely the origin and the components of the names passed*)
(* are names passed or the argument of the next call: so that, at the end,*)
(* the names passed are a trail themselves.                               *)
(***************************************************************************)
OnEveryTrail == \A S \in Trails(origin) : seen \subseteq S /\ current \in Along(origin, S)

NothingLeftOut == Along(origin, seen) \subseteq seen \cup {current}

Settled ==
    /\ verdict = "known" => current \in Concretes
    /\ verdict = "unknown" => current \in {External, Missing} \cup seen

ReferencesInv == ReferencesTypeOK /\ OnEveryTrail /\ NothingLeftOut /\ Settled

LEMMA InitHolds == ReferencesInit => ReferencesInv
<1> SUFFICES ASSUME ReferencesInit PROVE ReferencesInv
  OBVIOUS
<1>1. ReferencesTypeOK
  BY DEF ReferencesInit, ReferencesTypeOK, Values
<1>2. OnEveryTrail
  BY DEF ReferencesInit, OnEveryTrail, Along
<1>3. NothingLeftOut
  BY DEF ReferencesInit, NothingLeftOut, Along
<1>4. Settled
  BY DEF ReferencesInit, Settled
<1> QED
  BY <1>1, <1>2, <1>3, <1>4 DEF ReferencesInv

\* The components stay as they are while an operation is made, and so do the trails.
LEMMA SameTrails ==
    ASSUME UNCHANGED components
    PROVE  \A value, S : Trails(value)' = Trails(value) /\ Along(value, S)' = Along(value, S)
BY DEF Trails, Along

LEMMA BeginHolds ==
    ASSUME ReferencesInv, NEW value \in Values, Begin(value)
    PROVE  ReferencesInv'
<1>1. ReferencesTypeOK'
  BY DEF ReferencesInv, ReferencesTypeOK, Begin
<1>2. OnEveryTrail'
  BY DEF Begin, OnEveryTrail, Along
<1>3. NothingLeftOut'
  BY DEF Begin, NothingLeftOut, Along
<1>4. Settled'
  BY DEF Begin, Settled
<1> QED
  BY <1>1, <1>2, <1>3, <1>4 DEF ReferencesInv

LEMMA SettleHolds ==
    ASSUME ReferencesInv, SettleKnown \/ SettleUnknown
    PROVE  ReferencesInv'
<1>1. ReferencesTypeOK'
  BY DEF ReferencesInv, ReferencesTypeOK, SettleKnown, SettleUnknown
<1>2. OnEveryTrail'
  BY DEF ReferencesInv, OnEveryTrail, Trails, Along, SettleKnown, SettleUnknown
<1>3. NothingLeftOut'
  BY DEF ReferencesInv, NothingLeftOut, Along, SettleKnown, SettleUnknown
<1>4. Settled'
  BY DEF Settled, SettleKnown, SettleUnknown, Met
<1> QED
  BY <1>1, <1>2, <1>3, <1>4 DEF ReferencesInv

LEMMA FollowHolds ==
    ASSUME ReferencesInv, Follow
    PROVE  ReferencesInv'
<1>1. ReferencesTypeOK'
  BY DEF ReferencesInv, ReferencesTypeOK, Follow, Enter
<1>2. OnEveryTrail'
  <2> SUFFICES ASSUME NEW S \in Trails(origin)
               PROVE  seen \cup {current} \subseteq S /\ components[current] \in Along(origin, S)
    BY DEF OnEveryTrail, Trails, Along, Follow, Enter
  <2>1. seen \subseteq S /\ current \in Along(origin, S)
    BY DEF ReferencesInv, OnEveryTrail
  <2>2. current \in S
    BY <2>1 DEF Follow, Trails
  <2> QED
    BY <2>1, <2>2 DEF Along
<1>3. NothingLeftOut'
  BY DEF ReferencesInv, NothingLeftOut, Along, Follow, Enter
<1>4. Settled'
  BY DEF Settled, Follow, Running
<1> QED
  BY <1>1, <1>2, <1>3, <1>4 DEF ReferencesInv

LEMMA StepHolds == ReferencesInv /\ [ReferencesNext]_referencesVars => ReferencesInv'
<1> SUFFICES ASSUME ReferencesInv, [ReferencesNext]_referencesVars PROVE ReferencesInv'
  OBVIOUS
<1>1. CASE Resolve
  BY <1>1, SettleHolds, FollowHolds DEF Resolve
<1>2. CASE \E value \in Values : Begin(value)
  BY <1>2, BeginHolds
<1>3. CASE UNCHANGED referencesVars
  BY <1>3 DEF referencesVars, resolution, ReferencesInv, ReferencesTypeOK, OnEveryTrail,
              NothingLeftOut, Settled, Trails, Along
<1> QED
  BY <1>1, <1>2, <1>3 DEF ReferencesNext

LEMMA InvariantHolds == ReferencesSpec => []ReferencesInv
BY InitHolds, StepHolds, PTL DEF ReferencesSpec

\* At the end the names passed are a trail, and every trail holds what was found.
LEMMA InvIsExact == ReferencesInv => ResolutionIsExact
<1> SUFFICES ASSUME ReferencesInv, verdict \in {"known", "unknown"}
             PROVE  Ends(origin) = IF verdict = "known" THEN {current} ELSE {}
  BY DEF ResolutionIsExact
<1> USE ReferencesAssumption DEF ReferencesInv, ReferencesTypeOK
<1>1. current \notin Names \ seen
  BY DEF Settled
<1>2. seen \in Trails(origin)
  BY <1>1 DEF NothingLeftOut, Trails
<1>3. ASSUME NEW c \in Ends(origin) PROVE c = current
  BY <1>2, <1>3 DEF Ends, LeadsTo, NothingLeftOut
<1>4. CASE verdict = "known"
  <2>1. current \in Ends(origin)
    BY <1>4 DEF Settled, OnEveryTrail, Ends, LeadsTo
  <2> QED
    BY <1>3, <1>4, <2>1
<1>5. CASE verdict = "unknown"
  <2>1. current \notin Concretes
    BY <1>5 DEF Settled
  <2> QED
    BY <1>3, <1>5, <2>1 DEF Ends
<1> QED
  BY <1>4, <1>5

(***************************************************************************)
(* What the references refer to: circles of any length included, what     *)
(* resolveParameter and resolveSecurityScheme return is right.            *)
(***************************************************************************)
THEOREM Resolves == ReferencesSpec => []ResolutionIsExact
BY InvariantHolds, InvIsExact, PTL

LEMMA StepProgresses == [ReferencesNext]_referencesVars => [Progresses]_resolution
<1> SUFFICES ASSUME ReferencesNext, Running, Running' PROVE Progresses
  BY DEF Progresses, referencesVars, resolution
<1>1. Follow
  BY DEF ReferencesNext, Resolve, Begin, SettleKnown, SettleUnknown, Running
<1> QED
  BY <1>1 DEF Progresses, Follow, Enter, Met

(***************************************************************************)
(* No resolution goes round a circle, however long it is.                 *)
(***************************************************************************)
THEOREM EndsEveryResolution == ReferencesSpec => ResolutionProgresses
BY StepProgresses, PTL DEF ReferencesSpec, ResolutionProgresses

-----------------------------------------------------------------------------
(* The search of a schema for a property *)


Elements(s) == {s[i] : i \in DOMAIN s}

LEMMA ElementsOfConcatenation ==
    ASSUME NEW S, NEW s \in Seq(S), NEW t \in Seq(S)
    PROVE  s \o t \in Seq(S) /\ Elements(s \o t) = Elements(s) \cup Elements(t)
<1>1. s \o t \in Seq(S) /\ Len(s \o t) = Len(s) + Len(t)
  OBVIOUS
<1>2. \A i \in 1 .. Len(s) : (s \o t)[i] = s[i]
  OBVIOUS
<1>3. \A i \in 1 .. Len(t) : (s \o t)[i + Len(s)] = t[i]
  OBVIOUS
<1>4. ASSUME NEW e \in Elements(s \o t) PROVE e \in Elements(s) \cup Elements(t)
  <2>1. PICK i \in 1 .. (Len(s) + Len(t)) : e = (s \o t)[i]
    BY <1>1, <1>4 DEF Elements
  <2>2. CASE i \in 1 .. Len(s)
    BY <1>2, <2>1, <2>2 DEF Elements
  <2>3. CASE i \notin 1 .. Len(s)
    <3>1. i - Len(s) \in 1 .. Len(t) /\ i = (i - Len(s)) + Len(s)
      BY <2>3
    <3> QED
      BY <1>3, <2>1, <3>1 DEF Elements
  <2> QED
    BY <2>2, <2>3
<1>5. ASSUME NEW e \in Elements(s) PROVE e \in Elements(s \o t)
  <2>1. PICK i \in 1 .. Len(s) : e = s[i]
    BY <1>5 DEF Elements
  <2>2. i \in 1 .. Len(s \o t) /\ (s \o t)[i] = e
    BY <1>1, <1>2, <2>1
  <2> QED
    BY <1>1, <2>2 DEF Elements
<1>6. ASSUME NEW e \in Elements(t) PROVE e \in Elements(s \o t)
  <2>1. PICK i \in 1 .. Len(t) : e = t[i]
    BY <1>6 DEF Elements
  <2>2. i + Len(s) \in 1 .. Len(s \o t) /\ (s \o t)[i + Len(s)] = e
    BY <1>1, <1>3, <2>1
  <2> QED
    BY <1>1, <2>2 DEF Elements
<1> QED
  BY <1>1, <1>4, <1>5, <1>6

LEMMA ElementsOfTail ==
    ASSUME NEW S, NEW s \in Seq(S), s # <<>>
    PROVE  /\ Head(s) \in S
           /\ Tail(s) \in Seq(S)
           /\ Elements(s) = {Head(s)} \cup Elements(Tail(s))
<1>1. Len(s) \in Nat /\ Len(s) > 0 /\ Head(s) = s[1] /\ Tail(s) \in Seq(S) /\ Len(Tail(s)) = Len(s) - 1
  OBVIOUS
<1>2. \A i \in 1 .. Len(Tail(s)) : Tail(s)[i] = s[i + 1]
  OBVIOUS
<1>3. ASSUME NEW e \in Elements(s) PROVE e \in {Head(s)} \cup Elements(Tail(s))
  <2>1. PICK i \in 1 .. Len(s) : e = s[i]
    BY <1>3 DEF Elements
  <2>2. CASE i = 1
    BY <1>1, <2>1, <2>2
  <2>3. CASE i # 1
    <3>1. i - 1 \in 1 .. Len(Tail(s)) /\ i = (i - 1) + 1
      BY <1>1, <2>3
    <3>2. Tail(s)[i - 1] = s[i]
      BY <1>2, <3>1
    <3>3. DOMAIN Tail(s) = 1 .. Len(Tail(s))
      BY <1>1
    <3> QED
      BY <2>1, <3>1, <3>2, <3>3 DEF Elements
  <2> QED
    BY <2>2, <2>3
<1>4. ASSUME NEW e \in Elements(Tail(s)) PROVE e \in Elements(s)
  <2>1. PICK i \in 1 .. Len(Tail(s)) : e = Tail(s)[i]
    BY <1>1, <1>4 DEF Elements
  <2>2. i + 1 \in 1 .. Len(s) /\ s[i + 1] = e
    BY <1>1, <1>2, <2>1
  <2> QED
    BY <2>2 DEF Elements
<1>5. Head(s) \in Elements(s) /\ Head(s) \in S
  BY <1>1 DEF Elements
<1> QED
  BY <1>1, <1>3, <1>4, <1>5

LEMMA ElementsOfSingle ==
    ASSUME NEW S, NEW e \in S
    PROVE  <<e>> \in Seq(S) /\ Elements(<<e>>) = {e}
BY DEF Elements

LEMMA ElementsOfNothing ==
    ASSUME NEW S
    PROVE  <<>> \in Seq(S) /\ Elements(<<>>) = {}
BY DEF Elements

-----------------------------------------------------------------------------

\* What the walk has visited or is going to visit.
Known == visited \cup Elements(todo)

(***************************************************************************)
(* Everything known is part of the body's schema.  As long as the property*)
(* has not been found, the parts of what was visited are known, the       *)
(* targets of references through `followed'; so when nothing is left to   *)
(* visit, what was visited is all of the schema.                          *)
(***************************************************************************)
Looked == outcome \in {"walking", "undeclared", "uninspectable"}

PartOfTheSchema == Known \subseteq Reached

NothingMissed ==
    Looked =>
        /\ Root \in Known
        /\ followed \subseteq Known
        /\ \A n \in visited :
              /\ property \notin schemas[n].declares
              /\ Alternatives(n) \subseteq Known
              /\ schemas[n].ref \in followed \cup {None, Elsewhere}
              /\ schemas[n].ref = Elsewhere => ~inspectable

Ended ==
    /\ outcome = "declared" => \E n \in visited : property \in schemas[n].declares
    /\ outcome \in {"undeclared", "uninspectable"} => todo = <<>>
    /\ outcome = "undeclared" => inspectable

EncodingsInv == EncodingsTypeOK /\ PartOfTheSchema /\ NothingMissed /\ Ended

LEMMA DocumentsAreNodes ==
    ASSUME EncodingsTypeOK
    PROVE  /\ schemas \in [Nodes -> Node]
           /\ \A n \in Nodes :
                 /\ schemas[n].alternatives \in Seq(Nodes)
                 /\ Alternatives(n) = Elements(schemas[n].alternatives)
                 /\ Alternatives(n) \subseteq Nodes
                 /\ schemas[n].ref \in Nodes \cup {None, Elsewhere, Nowhere}
<1>1. schemas \in [Nodes -> Node]
  BY DEF EncodingsTypeOK, Documents
<1>2. ASSUME NEW n \in Nodes PROVE schemas[n].alternatives \in Seq(Nodes) /\ schemas[n].ref \in Nodes \cup {None, Elsewhere, Nowhere}
  BY <1>1 DEF Node
<1>3. ASSUME NEW n \in Nodes PROVE Alternatives(n) = Elements(schemas[n].alternatives) /\ Alternatives(n) \subseteq Nodes
  <2>1. Alternatives(n) = Elements(schemas[n].alternatives)
    BY DEF Alternatives, Elements
  <2>2. \A i \in DOMAIN schemas[n].alternatives : schemas[n].alternatives[i] \in Nodes
    BY <1>2
  <2> QED
    BY <2>1, <2>2 DEF Alternatives
<1> QED
  BY <1>1, <1>2, <1>3

LEMMA RootIsReached == EncodingsTypeOK => Root \in Reached
BY EncodingsAssumption DEF Reached

LEMMA PartsAreReached ==
    ASSUME EncodingsTypeOK, NEW n \in Reached
    PROVE  Parts(n) \subseteq Reached
<1>1. n \in Nodes
  BY DEF Reached
<1>2. Parts(n) \subseteq Nodes
  BY <1>1, DocumentsAreNodes DEF Parts
<1> QED
  BY <1>2 DEF Reached

LEMMA EncodingsInitHolds == EncodingsInit => EncodingsInv
<1> SUFFICES ASSUME EncodingsInit PROVE EncodingsInv
  OBVIOUS
<1>1. EncodingsTypeOK
  BY ElementsOfNothing DEF EncodingsInit, EncodingsTypeOK, Outcomes
<1>2. PartOfTheSchema
  BY ElementsOfNothing DEF EncodingsInit, PartOfTheSchema, Known
<1>3. NothingMissed
  BY DEF EncodingsInit, NothingMissed, Looked
<1>4. Ended
  BY DEF EncodingsInit, Ended
<1> QED
  BY <1>1, <1>2, <1>3, <1>4 DEF EncodingsInv

LEMMA BeginWalkHolds ==
    ASSUME EncodingsInv, NEW p \in Properties, BeginWalk(p)
    PROVE  EncodingsInv'
<1>1. todo' \in Seq(Nodes) /\ Elements(todo') = {Root}
  BY EncodingsAssumption, ElementsOfSingle DEF BeginWalk
<1>2. EncodingsTypeOK'
  BY <1>1 DEF EncodingsInv, EncodingsTypeOK, BeginWalk, Outcomes
<1>3. PartOfTheSchema'
  <2>1. Root \in Reached /\ Reached' = Reached
    BY RootIsReached DEF EncodingsInv, BeginWalk, Reached, Parts, Alternatives
  <2> QED
    BY <1>1, <2>1 DEF PartOfTheSchema, Known, BeginWalk
<1>4. NothingMissed'
  BY <1>1 DEF NothingMissed, Known, BeginWalk
<1>5. Ended'
  BY DEF Ended, BeginWalk
<1> QED
  BY <1>2, <1>3, <1>4, <1>5 DEF EncodingsInv

\* What every visit of an object finds.
LEMMA HeadIsKnown ==
    ASSUME EncodingsInv, AtObject
    PROVE  /\ Head(todo) \in Nodes
           /\ Head(todo) \in Reached
           /\ Tail(todo) \in Seq(Nodes)
           /\ Elements(todo) = {Head(todo)} \cup Elements(Tail(todo))
BY ElementsOfTail DEF EncodingsInv, EncodingsTypeOK, AtObject, PartOfTheSchema, Known

LEMMA ContinueKnows ==
    ASSUME EncodingsInv, AtObject, UNCHANGED schemas, Visit,
           NEW before \in Seq(Nodes), Continue(before)
    PROVE  /\ todo' \in Seq(Nodes)
           /\ visited' = visited \cup {Head(todo)}
           /\ Known' = Known \cup Elements(before) \cup Alternatives(Head(todo))
<1>1. Head(todo) \in Nodes /\ Tail(todo) \in Seq(Nodes)
  BY HeadIsKnown
<1>2. Here.alternatives \in Seq(Nodes) /\ Alternatives(Head(todo)) = Elements(Here.alternatives)
  BY <1>1, DocumentsAreNodes DEF Here, EncodingsInv
<1> DEFINE first == before \o Here.alternatives
<1>3. first \in Seq(Nodes) /\ Elements(first) = Elements(before) \cup Alternatives(Head(todo))
  BY <1>2, ElementsOfConcatenation
<1>4. todo' = first \o Tail(todo)
  BY <1>1, <1>2 DEF Continue
<1> HIDE DEF first
<1>5. /\ todo' \in Seq(Nodes)
      /\ Elements(todo') = Elements(before) \cup Alternatives(Head(todo)) \cup Elements(Tail(todo))
  <2> DEFINE rest == Tail(todo)
  <2>0. rest \in Seq(Nodes) /\ first \in Seq(Nodes) /\ todo' = first \o rest
    BY <1>1, <1>3, <1>4
  <2> HIDE DEF rest
  <2>1. first \o rest \in Seq(Nodes) /\ Elements(first \o rest) = Elements(first) \cup Elements(rest)
    BY <2>0, ElementsOfConcatenation
  <2> QED
    BY <1>3, <2>0, <2>1 DEF rest
<1>6. Elements(todo) = {Head(todo)} \cup Elements(Tail(todo))
  BY HeadIsKnown
<1> QED
  BY <1>5, <1>6 DEF Known, Visit

(***************************************************************************)
(* A visit that goes on: the head's reference, if it is to be followed, is*)
(* put before its alternatives.                                            *)
(***************************************************************************)
LEMMA VisitHolds ==
    ASSUME EncodingsInv, Searching, UNCHANGED <<schemas, property, outcome>>, Visit,
           NEW before \in Seq(Nodes), Continue(before),
           Elements(before) \subseteq Parts(Head(todo)),
           followed' = followed \cup Elements(before),
           Here.ref \in followed' \cup {None, Elsewhere},
           inspectable' \in BOOLEAN, inspectable' => inspectable,
           Here.ref = Elsewhere => ~inspectable'
    PROVE  EncodingsInv'
<1>1. AtObject /\ outcome = "walking" /\ outcome' = "walking"
  BY DEF Searching, AtObject, Walking
<1>2. /\ todo' \in Seq(Nodes)
      /\ visited' = visited \cup {Head(todo)}
      /\ Known' = Known \cup Elements(before) \cup Alternatives(Head(todo))
  BY <1>1, ContinueKnows
<1>3. /\ Head(todo) \in Nodes
      /\ Head(todo) \in Known
      /\ Head(todo) \in Reached
  BY <1>1, HeadIsKnown DEF Known
<1>4. Reached' = Reached /\ \A n : Alternatives(n)' = Alternatives(n)
  BY DEF Reached, Parts, Alternatives
<1>5. Parts(Head(todo)) \subseteq Reached /\ Alternatives(Head(todo)) \subseteq Parts(Head(todo))
  BY <1>3, PartsAreReached DEF EncodingsInv, Parts
<1>6. EncodingsTypeOK'
  <2>1. Reached \subseteq Nodes
    BY DEF Reached
  <2> QED
    BY <1>2, <1>3, <1>5, <2>1 DEF EncodingsInv, EncodingsTypeOK
<1>7. PartOfTheSchema'
  BY <1>2, <1>4, <1>5 DEF EncodingsInv, PartOfTheSchema
<1>8. NothingMissed'
  <2>1. Root \in Known' /\ followed' \subseteq Known'
    BY <1>1, <1>2 DEF EncodingsInv, NothingMissed, Looked
  <2>2. ASSUME NEW n \in visited'
        PROVE  /\ property' \notin schemas'[n].declares
               /\ Alternatives(n) \subseteq Known'
               /\ schemas'[n].ref \in followed' \cup {None, Elsewhere}
               /\ schemas'[n].ref = Elsewhere => ~inspectable'
    <3>1. CASE n = Head(todo)
      BY <1>2, <3>1 DEF Searching, Here
    <3>2. CASE n \in visited
      BY <1>1, <1>2, <3>2 DEF EncodingsInv, NothingMissed, Looked
    <3> QED
      BY <1>2, <2>2, <3>1, <3>2
  <2> QED
    BY <1>4, <2>1, <2>2 DEF NothingMissed
<1>9. Ended'
  BY <1>1 DEF Ended
<1> QED
  BY <1>6, <1>7, <1>8, <1>9 DEF EncodingsInv

LEMMA WalkHolds == ASSUME EncodingsInv, Walk PROVE EncodingsInv'
<1> USE DEF EncodingsInv
<1>0. ASSUME AtObject
      PROVE  /\ Head(todo) \in Nodes
             /\ Here.ref \in Nodes \cup {None, Elsewhere, Nowhere}
  BY <1>0, HeadIsKnown, DocumentsAreNodes DEF Here
<1>1. CASE FindProperty
  <2>1. EncodingsTypeOK'
    BY <1>0, <1>1 DEF FindProperty, EncodingsTypeOK, Visit, Outcomes
  <2>2. PartOfTheSchema'
    BY <1>1, HeadIsKnown DEF FindProperty, PartOfTheSchema, Known, Reached, Parts, Alternatives, Visit
  <2>3. NothingMissed' /\ Ended'
    BY <1>1 DEF FindProperty, NothingMissed, Looked, Ended, Visit, Here
  <2> QED
    BY <2>1, <2>2, <2>3
<1>2. CASE VisitPlain
  <2>1. <<>> \in Seq(Nodes) /\ Elements(<<>>) = {}
    BY ElementsOfNothing
  <2>2. inspectable \in BOOLEAN /\ Here.ref # Elsewhere
    BY <1>2, EncodingsAssumption DEF VisitPlain, EncodingsTypeOK
  <2> QED
    BY <1>2, <2>1, <2>2, VisitHolds DEF VisitPlain
<1>3. CASE SkipReference
  <2>1. <<>> \in Seq(Nodes) /\ Elements(<<>>) = {}
    BY ElementsOfNothing
  <2> QED
    BY <1>3, <2>1, VisitHolds DEF SkipReference, PassOver, Opaque
<1>4. CASE FollowReference
  <2>1. <<Here.ref>> \in Seq(Nodes) /\ Elements(<<Here.ref>>) = {Here.ref}
    BY <1>4, ElementsOfSingle DEF FollowReference
  <2>2. inspectable \in BOOLEAN /\ Here.ref # Elsewhere /\ Here.ref \in Parts(Head(todo))
    BY <1>4, EncodingsAssumption DEF FollowReference, EncodingsTypeOK, Parts, Here
  <2> QED
    BY <1>4, <2>1, <2>2, VisitHolds DEF FollowReference
<1>5. CASE FailWalk
  <2>1. EncodingsTypeOK'
    BY <1>0, <1>5 DEF FailWalk, Searching, EncodingsTypeOK, Visit, Outcomes
  <2>2. PartOfTheSchema'
    BY <1>5, HeadIsKnown DEF FailWalk, Searching, PartOfTheSchema, Known, Reached, Parts, Alternatives, Visit
  <2>3. NothingMissed' /\ Ended'
    BY <1>5 DEF FailWalk, NothingMissed, Looked, Ended
  <2> QED
    BY <2>1, <2>2, <2>3
<1>6. CASE EndWalk
  <2>1. EncodingsTypeOK'
    BY <1>6 DEF EndWalk, EncodingsTypeOK, Outcomes
  <2>2. PartOfTheSchema'
    BY <1>6 DEF EndWalk, PartOfTheSchema, Known, Reached, Parts, Alternatives
  <2>3. NothingMissed'
    BY <1>6 DEF EndWalk, Walking, NothingMissed, Looked, Known, Alternatives
  <2>4. Ended'
    BY <1>6 DEF EndWalk, Ended
  <2> QED
    BY <2>1, <2>2, <2>3, <2>4
<1> QED
  BY <1>1, <1>2, <1>3, <1>4, <1>5, <1>6 DEF Walk

LEMMA EncodingsStepHolds == EncodingsInv /\ [EncodingsNext]_encodingsVars => EncodingsInv'
<1> SUFFICES ASSUME EncodingsInv, [EncodingsNext]_encodingsVars PROVE EncodingsInv'
  OBVIOUS
<1>1. CASE Walk
  BY <1>1, WalkHolds
<1>2. CASE \E p \in Properties : BeginWalk(p)
  BY <1>2, BeginWalkHolds
<1>3. CASE UNCHANGED encodingsVars
  BY <1>3 DEF encodingsVars, walk, EncodingsInv, EncodingsTypeOK, PartOfTheSchema, NothingMissed,
              Ended, Known, Looked, Reached, Parts, Alternatives
<1> QED
  BY <1>1, <1>2, <1>3 DEF EncodingsNext

(***************************************************************************)
(* When the walk has ended without finding the property, what it visited  *)
(* holds the body's schema and the parts of its objects: all there is.    *)
(***************************************************************************)
LEMMA AllIsVisited ==
    ASSUME EncodingsInv, outcome \in {"undeclared", "uninspectable"}
    PROVE  Reached \subseteq visited /\ todo = <<>>
<1>1. Known = visited /\ visited \subseteq Nodes /\ todo = <<>>
  BY ElementsOfNothing DEF EncodingsInv, Known, Ended, EncodingsTypeOK
<1>2. Root \in visited
  BY <1>1 DEF EncodingsInv, NothingMissed, Looked
<1>3. \A m \in visited : Parts(m) \subseteq visited
  BY <1>1, EncodingsAssumption DEF EncodingsInv, NothingMissed, Looked, Parts
<1> QED BY <1>1, <1>2, <1>3 DEF Reached

LEMMA InvIsSound == EncodingsInv => WalkIsSound
<1> SUFFICES ASSUME EncodingsInv PROVE WalkIsSound
  OBVIOUS
<1> USE DEF EncodingsInv
<1>1. ASSUME outcome = "declared"
      PROVE  \E n \in Reached : property \in schemas[n].declares
  BY <1>1 DEF Ended, PartOfTheSchema, Known
<1>2. ASSUME outcome \in {"undeclared", "uninspectable"}
      PROVE  Reached \subseteq visited
  BY <1>2, AllIsVisited
<1>3. ASSUME outcome \in {"undeclared", "uninspectable"}, NEW n \in Reached
      PROVE  /\ property \notin schemas[n].declares
             /\ schemas[n].ref # Nowhere
             /\ outcome = "undeclared" => schemas[n].ref # Elsewhere
  <2>1. /\ property \notin schemas[n].declares
        /\ schemas[n].ref \in followed \cup {None, Elsewhere}
        /\ schemas[n].ref = Elsewhere => ~inspectable
    BY <1>2, <1>3 DEF NothingMissed, Looked
  <2>2. followed \subseteq Nodes /\ (outcome = "undeclared" => inspectable)
    BY DEF EncodingsTypeOK, Ended
  <2> QED
    BY <2>1, <2>2, EncodingsAssumption
<1>4. outcome = "undeclared" => \A n \in Reached : schemas[n].ref # Elsewhere
  BY <1>3
<1>5. outcome \in {"undeclared", "uninspectable"} =>
          \A n \in Reached : property \notin schemas[n].declares /\ schemas[n].ref # Nowhere
  BY <1>3
<1> QED
  BY <1>1, <1>4, <1>5 DEF WalkIsSound

LEMMA EncodingsInvariantHolds == EncodingsSpec => []EncodingsInv
BY EncodingsInitHolds, EncodingsStepHolds, PTL DEF EncodingsSpec

(***************************************************************************)
(* Whatever its schema refers to, no encoding is reported that names one  *)
(* of its properties, and a report means that all of it was looked at.    *)
(***************************************************************************)
THEOREM SearchIsSound == EncodingsSpec => []WalkIsSound
BY EncodingsInvariantHolds, InvIsSound, PTL
-----------------------------------------------------------------------------
(* Why a search says nothing: what is met twice *)

\* Only members of D occur more than once in s.
Apart(s, D) == \A i, j \in DOMAIN s : s[i] = s[j] => i = j \/ s[i] \in D

\* Of what is to be visited, only members of D are visited more than once.
Single(s, V, D) == Apart(s, D) /\ Elements(s) \cap V \subseteq D

LEMMA ApartConcatenation ==
    ASSUME NEW S, NEW s \in Seq(S), NEW t \in Seq(S), NEW D
    PROVE  Apart(s \o t, D) <=>
               Apart(s, D) /\ Apart(t, D) /\ Elements(s) \cap Elements(t) \subseteq D
<1>1. /\ Len(s) \in Nat /\ Len(t) \in Nat
      /\ DOMAIN (s \o t) = 1 .. (Len(s) + Len(t))
      /\ DOMAIN s = 1 .. Len(s) /\ DOMAIN t = 1 .. Len(t)
  OBVIOUS
<1>2. \A i \in 1 .. Len(s) : (s \o t)[i] = s[i]
  OBVIOUS
<1>3. \A i \in 1 .. Len(t) : (s \o t)[i + Len(s)] = t[i]
  OBVIOUS
<1>4. ASSUME Apart(s \o t, D)
      PROVE  Apart(s, D) /\ Apart(t, D) /\ Elements(s) \cap Elements(t) \subseteq D
  <2>1. Apart(s, D)
    BY <1>1, <1>2, <1>4 DEF Apart
  <2>2. ASSUME NEW i \in 1 .. Len(t), NEW j \in 1 .. Len(t), t[i] = t[j]
        PROVE  i = j \/ t[i] \in D
    <3>1. i + Len(s) \in DOMAIN (s \o t) /\ j + Len(s) \in DOMAIN (s \o t)
      BY <1>1
    <3> QED BY <1>1, <1>3, <1>4, <2>2, <3>1 DEF Apart
  <2>3. ASSUME NEW i \in 1 .. Len(s), NEW j \in 1 .. Len(t), s[i] = t[j]
        PROVE  s[i] \in D
    <3>1. i \in DOMAIN (s \o t) /\ j + Len(s) \in DOMAIN (s \o t) /\ i # j + Len(s)
      BY <1>1
    <3> QED BY <1>1, <1>2, <1>3, <1>4, <2>3, <3>1 DEF Apart
  <2> QED BY <1>1, <2>1, <2>2, <2>3 DEF Apart, Elements
<1>5. ASSUME Apart(s, D), Apart(t, D), Elements(s) \cap Elements(t) \subseteq D,
             NEW i \in DOMAIN (s \o t), NEW j \in DOMAIN (s \o t), (s \o t)[i] = (s \o t)[j]
      PROVE  i = j \/ (s \o t)[i] \in D
  <2> DEFINE later(k) == k - Len(s)
  <2>1. ASSUME NEW k \in DOMAIN (s \o t)
        PROVE  \/ k \in DOMAIN s /\ (s \o t)[k] = s[k]
               \/ later(k) \in DOMAIN t /\ (s \o t)[k] = t[later(k)]
    <3>1. CASE k \in 1 .. Len(s)
      BY <1>1, <1>2, <3>1
    <3>2. CASE k \notin 1 .. Len(s)
      <4>1. later(k) \in 1 .. Len(t) /\ k = later(k) + Len(s)
        BY <1>1, <3>2
      <4> QED BY <1>1, <1>3, <4>1
    <3> QED BY <3>1, <3>2
  <2>2. CASE i \in DOMAIN s /\ j \in DOMAIN s
    BY <1>1, <1>2, <1>5, <2>2 DEF Apart
  <2>3. CASE /\ later(i) \in DOMAIN t /\ (s \o t)[i] = t[later(i)]
             /\ later(j) \in DOMAIN t /\ (s \o t)[j] = t[later(j)]
    <3>1. later(i) = later(j) \/ (s \o t)[i] \in D
      BY <1>5, <2>3 DEF Apart
    <3>2. later(i) = later(j) => i = j
      BY <1>1
    <3> QED BY <3>1, <3>2
  <2>4. CASE /\ \/ i \in DOMAIN s /\ (s \o t)[i] = s[i]
                \/ j \in DOMAIN s /\ (s \o t)[j] = s[j]
             /\ \/ later(i) \in DOMAIN t /\ (s \o t)[i] = t[later(i)]
                \/ later(j) \in DOMAIN t /\ (s \o t)[j] = t[later(j)]
    <3>1. (s \o t)[i] \in Elements(s) /\ (s \o t)[i] \in Elements(t)
      BY <1>5, <2>4 DEF Elements
    <3> QED BY <1>5, <3>1
  <2> QED BY <2>1, <2>2, <2>3, <2>4
<1> QED BY <1>4, <1>5 DEF Apart

LEMMA ApartHead ==
    ASSUME NEW S, NEW s \in Seq(S), s # <<>>, NEW D
    PROVE  Apart(s, D) <=> Apart(Tail(s), D) /\ (Head(s) \in Elements(Tail(s)) => Head(s) \in D)
<1>1. /\ Head(s) \in S /\ Tail(s) \in Seq(S) /\ <<Head(s)>> \in Seq(S)
      /\ s = <<Head(s)>> \o Tail(s)
  OBVIOUS
<1>2. Elements(<<Head(s)>>) = {Head(s)} /\ Apart(<<Head(s)>>, D)
  BY <1>1, ElementsOfSingle DEF Apart
<1> DEFINE first == <<Head(s)>>
<1>3. Apart(first \o Tail(s), D) <=>
          Apart(first, D) /\ Apart(Tail(s), D) /\ Elements(first) \cap Elements(Tail(s)) \subseteq D
  BY <1>1, ApartConcatenation
<1> QED BY <1>1, <1>2, <1>3

(***************************************************************************)
(* One visit: what it puts on the stack is single, with the rest, if and  *)
(* only if that holds of its parts.                                        *)
(***************************************************************************)
LEMMA SingleAfter ==
    ASSUME NEW S, NEW D, NEW V, NEW s \in Seq(S), s # <<>>,
           NEW before \in Seq(S), NEW alternatives \in Seq(S)
    PROVE  Single(before \o alternatives \o Tail(s), V \cup {Head(s)}, D) <=>
              /\ Apart(before, D) /\ Apart(alternatives, D) /\ Apart(Tail(s), D)
              /\ Elements(before) \cap Elements(alternatives) \subseteq D
              /\ (Elements(before) \cup Elements(alternatives)) \cap Elements(Tail(s)) \subseteq D
              /\ (Elements(before) \cup Elements(alternatives) \cup Elements(Tail(s)))
                    \cap (V \cup {Head(s)}) \subseteq D
<1> DEFINE first == before \o alternatives
           rest == Tail(s)
<1>1. rest \in Seq(S)
  BY ElementsOfTail
<1>2. first \in Seq(S) /\ Elements(first) = Elements(before) \cup Elements(alternatives)
  BY ElementsOfConcatenation
<1>3. Apart(first, D) <=> /\ Apart(before, D) /\ Apart(alternatives, D)
                          /\ Elements(before) \cap Elements(alternatives) \subseteq D
  BY ApartConcatenation
<1>4. before \o alternatives \o Tail(s) = first \o rest
  OBVIOUS
<1> HIDE DEF first, rest
<1>5. /\ first \o rest \in Seq(S)
      /\ Elements(first \o rest) = Elements(first) \cup Elements(rest)
  BY <1>1, <1>2, ElementsOfConcatenation
<1>6. Apart(first \o rest, D) <=>
          Apart(first, D) /\ Apart(rest, D) /\ Elements(first) \cap Elements(rest) \subseteq D
  BY <1>1, <1>2, ApartConcatenation
<1>7. rest = Tail(s)
  BY DEF rest
<1> QED BY <1>2, <1>3, <1>4, <1>5, <1>6, <1>7 DEF Single

LEMMA SingleNow ==
    ASSUME NEW S, NEW D, NEW V, NEW s \in Seq(S), s # <<>>
    PROVE  Single(s, V, D) <=>
              /\ Apart(Tail(s), D)
              /\ Head(s) \in Elements(Tail(s)) \cup V => Head(s) \in D
              /\ Elements(Tail(s)) \cap V \subseteq D
BY ApartHead, ElementsOfTail DEF Single

\* What is inside an object that is met where it is held and again from elsewhere.
MetTwice ==
    {x \in Nodes : \E holder, n, m \in Reached :
        m \in Alternatives(holder) /\ schemas[n].ref = m /\ x \in Inside(m)}

\* The objects without a reference inside: to meet these again makes no difference.
Light == {x \in Nodes : \A k \in Inside(x) : schemas[k].ref \notin Nodes}

\* Part of the schema is in another document, or is referred to twice.
Hidden == Shared \/ \E n \in Reached : schemas[n].ref = Elsewhere

(***************************************************************************)
(* How the walk came to what it knows: an object is the body's, held by   *)
(* one that was visited, or what a visited one refers to.  So what is on  *)
(* the stack twice, or was visited and is on it again, is inside of what  *)
(* is met twice, and a reference that is met again, there or in two       *)
(* objects, is shared.                                                     *)
(***************************************************************************)
Placed ==
    /\ \A x \in Known : x = Root \/ x \in followed \/ \E h \in visited : x \in Alternatives(h)
    /\ \A r \in followed : \E n \in visited : schemas[n].ref = r

RepeatsAreMetTwice == Single(todo, visited, MetTwice)

PassedOverForAReason == ~inspectable => Hidden

(***************************************************************************)
(* As long as nothing was passed over, no two of the visited objects have *)
(* the same reference; and what one of them holds and another refers to   *)
(* has no reference inside, or will show it: something with a reference   *)
(* inside is on the stack, and that for the second time.                   *)
(***************************************************************************)
Separate ==
    inspectable => \A m, n \in visited :
        schemas[m].ref = schemas[n].ref /\ schemas[m].ref \in Nodes => m = n

MeetingsAreLight ==
    inspectable /\ Single(todo, visited, Light) =>
        \A holder, n \in visited : schemas[n].ref \in Alternatives(holder) => schemas[n].ref \in Light

SilenceInv ==
    /\ Looked => /\ Placed
                 /\ RepeatsAreMetTwice
                 /\ PassedOverForAReason
                 /\ Separate
                 /\ MeetingsAreLight
    /\ outcome = "uninspectable" => ~inspectable

LEMMA SameSchemas ==
    ASSUME UNCHANGED schemas
    PROVE  /\ \A n : Alternatives(n)' = Alternatives(n)
           /\ MetTwice' = MetTwice
           /\ Light' = Light
           /\ Hidden' <=> Hidden
<1>1. \A n : Alternatives(n)' = Alternatives(n)
  BY DEF Alternatives
<1>2. Reached' = Reached
  BY DEF Reached, Parts, Alternatives
<1>3. \A n : Inside(n)' = Inside(n)
  BY <1>1 DEF Inside
<1>4. MetTwice' = MetTwice
  BY <1>1, <1>2, <1>3 DEF MetTwice
<1>5. Light' = Light
  BY <1>3 DEF Light
<1>6. Hidden' <=> Hidden
  BY <1>1, <1>2, <1>3 DEF Hidden, Shared
<1> QED BY <1>1, <1>4, <1>5, <1>6

\* Objects are held once, and the body's nowhere; nothing refers to that one.
LEMMA HeldOnce ==
    ASSUME EncodingsTypeOK, NEW m \in Nodes
    PROVE  /\ schemas[m].ref # Root
           /\ Root \notin Alternatives(m)
           /\ \A n \in Nodes : Alternatives(m) \cap Alternatives(n) # {} => m = n
           /\ Apart(schemas[m].alternatives, {})
BY DEF EncodingsTypeOK, Documents, Alternatives, Apart

LEMMA HeldIsMetTwice ==
    ASSUME EncodingsTypeOK, NEW holder \in Reached, NEW n \in Reached,
           schemas[n].ref \in Alternatives(holder)
    PROVE  schemas[n].ref \in MetTwice
<1>1. schemas[n].ref \in Nodes /\ schemas[n].ref \in Reached
  BY DocumentsAreNodes, PartsAreReached DEF Reached, Parts
<1>2. schemas[n].ref \in Inside(schemas[n].ref)
  BY <1>1 DEF Inside
<1> QED BY <1>1, <1>2 DEF MetTwice

LEMMA MetTwiceIsClosed ==
    ASSUME EncodingsTypeOK, NEW x \in MetTwice
    PROVE  Alternatives(x) \subseteq MetTwice
<1>1. PICK holder \in Reached, n \in Reached, m \in Reached :
         m \in Alternatives(holder) /\ schemas[n].ref = m /\ x \in Inside(m)
  BY DEF MetTwice
<1>2. x \in Nodes /\ Alternatives(x) \subseteq Nodes
  BY DocumentsAreNodes DEF MetTwice
<1>3. Alternatives(x) \subseteq Inside(m)
  BY <1>1, <1>2 DEF Inside
<1> QED BY <1>1, <1>2, <1>3 DEF MetTwice

\* An object with a reference inside has it itself or in one of its alternatives.
LEMMA HeavyAlternative ==
    ASSUME EncodingsTypeOK, NEW x \in Nodes \ Light, schemas[x].ref \notin Nodes
    PROVE  \E a \in Alternatives(x) : a \notin Light
<1> SUFFICES ASSUME Alternatives(x) \subseteq Light PROVE FALSE
  OBVIOUS
<1>1. PICK k \in Inside(x) : schemas[k].ref \in Nodes
  BY DEF Light
<1> DEFINE S == {x} \cup UNION {Inside(a) : a \in Alternatives(x)}
<1>2. S \subseteq Nodes /\ x \in S
  BY DEF Inside
<1>3. Alternatives(x) \subseteq S
  <2> SUFFICES ASSUME NEW a \in Alternatives(x) PROVE a \in Inside(a)
    OBVIOUS
  <2> QED BY DocumentsAreNodes DEF Inside
<1>4. ASSUME NEW a \in Alternatives(x), NEW j \in Inside(a) PROVE Alternatives(j) \subseteq Inside(a)
  BY DocumentsAreNodes DEF Inside
<1>5. \A j \in S : Alternatives(j) \subseteq S
  BY <1>3, <1>4
<1>6. k \in S
  BY <1>2, <1>5 DEF Inside
<1> QED BY <1>1, <1>6 DEF Light

-----------------------------------------------------------------------------

\* What a visit puts before the alternatives of the object.
Fresh == IF Here.ref \in Nodes \ followed THEN <<Here.ref>> ELSE <<>>

\* The three ways a visit goes on, as one.
GoesOn ==
    /\ Searching
    /\ Here.ref # Nowhere
    /\ Visit
    /\ Continue(Fresh)
    /\ followed' = followed \cup Elements(Fresh)
    /\ inspectable' <=> inspectable /\ ~Opaque(Here.ref)
    /\ UNCHANGED <<schemas, property, outcome>>

LEMMA FreshIsKnown ==
    ASSUME EncodingsInv, AtObject
    PROVE  /\ Fresh \in Seq(Nodes)
           /\ Elements(Fresh) = {Here.ref} \cap (Nodes \ followed)
           /\ \A D : Apart(Fresh, D)
BY ElementsOfSingle, ElementsOfNothing DEF Fresh, Apart

LEMMA WalkGoesOn ==
    ASSUME EncodingsInv, VisitPlain \/ SkipReference \/ FollowReference
    PROVE  GoesOn
<1>0. AtObject /\ followed \subseteq Nodes
  BY DEF VisitPlain, SkipReference, FollowReference, Searching, EncodingsInv, EncodingsTypeOK
<1>1. CASE VisitPlain
  <2>1. Fresh = <<>> /\ Elements(Fresh) = {} /\ ~Opaque(Here.ref) /\ Here.ref # Nowhere
    BY <1>0, <1>1, ElementsOfNothing, EncodingsAssumption DEF VisitPlain, Fresh, Opaque
  <2> QED BY <1>1, <2>1 DEF VisitPlain, GoesOn
<1>2. CASE SkipReference
  <2>1. Fresh = <<>> /\ Elements(Fresh) = {} /\ Opaque(Here.ref) /\ Here.ref # Nowhere
    BY <1>0, <1>2, ElementsOfNothing, EncodingsAssumption DEF SkipReference, Fresh, Opaque
  <2> QED BY <1>2, <2>1 DEF SkipReference, PassOver, GoesOn
<1>3. CASE FollowReference
  <2>1. /\ Fresh = <<Here.ref>> /\ Elements(Fresh) = {Here.ref}
        /\ ~Opaque(Here.ref) /\ Here.ref # Nowhere
    BY <1>3, ElementsOfSingle, EncodingsAssumption DEF FollowReference, Fresh, Opaque
  <2> QED BY <1>3, <2>1 DEF FollowReference, GoesOn
<1> QED BY <1>1, <1>2, <1>3

\* The state of a visit: the object, the rest of the stack and what is put on it.
LEMMA AtAVisit ==
    ASSUME EncodingsInv, SilenceInv, GoesOn
    PROVE  /\ EncodingsTypeOK /\ followed \subseteq Nodes
           /\ Placed /\ RepeatsAreMetTwice /\ PassedOverForAReason /\ Separate /\ MeetingsAreLight
           /\ outcome = "walking" /\ outcome' = "walking"
           /\ Head(todo) \in Reached /\ Head(todo) \in Nodes /\ visited \subseteq Reached
           /\ todo \in Seq(Nodes) /\ todo # <<>> /\ Tail(todo) \in Seq(Nodes)
           /\ Here.alternatives \in Seq(Nodes)
           /\ Elements(Here.alternatives) = Alternatives(Head(todo))
           /\ Elements(Here.alternatives) \subseteq Nodes
           /\ Here.ref \in Nodes \cup {None, Elsewhere}
           /\ Known = visited \cup {Head(todo)} \cup Elements(Tail(todo))
           /\ Known' = Known \cup Elements(Fresh) \cup Alternatives(Head(todo))
           /\ visited' = visited \cup {Head(todo)}
           /\ todo' = Fresh \o Here.alternatives \o Tail(todo)
<1>1. AtObject /\ outcome = "walking" /\ outcome' = "walking" /\ Looked
  BY DEF GoesOn, Searching, AtObject, Walking, Looked
<1>2. /\ Head(todo) \in Nodes /\ Head(todo) \in Reached /\ Tail(todo) \in Seq(Nodes)
      /\ Elements(todo) = {Head(todo)} \cup Elements(Tail(todo))
  BY <1>1, HeadIsKnown
<1>3. /\ Here.alternatives \in Seq(Nodes)
      /\ Alternatives(Head(todo)) = Elements(Here.alternatives)
      /\ Alternatives(Head(todo)) \subseteq Nodes
      /\ Here.ref \in Nodes \cup {None, Elsewhere}
  BY <1>2, DocumentsAreNodes DEF Here, EncodingsInv, GoesOn
<1>4. Known' = Known \cup Elements(Fresh) \cup Alternatives(Head(todo))
  BY <1>1, FreshIsKnown, ContinueKnows DEF GoesOn
<1>5. todo \in Seq(Nodes) /\ visited \subseteq Reached /\ followed \subseteq Nodes
  BY DEF EncodingsInv, EncodingsTypeOK, PartOfTheSchema, Known
<1>6. EncodingsTypeOK
  BY DEF EncodingsInv
<1>7. todo # <<>>
  BY <1>1 DEF AtObject
<1>8. Placed /\ RepeatsAreMetTwice /\ PassedOverForAReason /\ Separate /\ MeetingsAreLight
  BY <1>1 DEF SilenceInv
<1>9. Known = visited \cup {Head(todo)} \cup Elements(Tail(todo))
  BY <1>2 DEF Known
<1>10. visited' = visited \cup {Head(todo)} /\ todo' = Fresh \o Here.alternatives \o Tail(todo)
  BY DEF GoesOn, Visit, Continue
<1> QED BY <1>1, <1>2, <1>3, <1>4, <1>5, <1>6, <1>7, <1>8, <1>9, <1>10

LEMMA StaysPlaced ==
    ASSUME EncodingsInv, SilenceInv, GoesOn
    PROVE  Placed'
<1>1. Elements(Fresh) = {Here.ref} \cap (Nodes \ followed)
  BY FreshIsKnown DEF GoesOn, Searching
<1>2. \A n : Alternatives(n)' = Alternatives(n) /\ schemas'[n] = schemas[n]
  BY SameSchemas DEF GoesOn
<1>3. followed' = followed \cup Elements(Fresh)
  BY DEF GoesOn
<1>4. ASSUME NEW x \in Known'
      PROVE  x = Root \/ x \in followed' \/ \E h \in visited' : x \in Alternatives(h)
  BY <1>3, <1>4, AtAVisit DEF Placed
<1>5. ASSUME NEW r \in followed' PROVE \E n \in visited' : schemas[n].ref = r
  BY <1>1, <1>3, <1>5, AtAVisit DEF Placed, Here
<1> QED BY <1>2, <1>4, <1>5 DEF Placed

LEMMA RepeatsStayMetTwice ==
    ASSUME EncodingsInv, SilenceInv, GoesOn
    PROVE  RepeatsAreMetTwice'
<1> DEFINE x == Head(todo)
           rest == Tail(todo)
           D == MetTwice
           alts == Here.alternatives
<1>0. /\ EncodingsTypeOK /\ Placed /\ x \in Reached /\ x \in Nodes /\ visited \subseteq Reached
      /\ Elements(alts) = Alternatives(x)
      /\ Known = visited \cup {x} \cup Elements(rest)
      /\ Reached \subseteq Nodes
  BY AtAVisit DEF Reached
<1>1. Fresh \in Seq(Nodes) /\ Apart(Fresh, D) /\ Elements(Fresh) = {schemas[x].ref} \cap (Nodes \ followed)
  BY FreshIsKnown DEF GoesOn, Searching, Here
<1>2. /\ Apart(rest, D)
      /\ x \in Elements(rest) \cup visited => x \in D
      /\ Elements(rest) \cap visited \subseteq D
  BY AtAVisit, SingleNow DEF RepeatsAreMetTwice
<1>3. Apart(alts, D)
  BY <1>0, HeldOnce DEF Apart, Here
<1>4. Elements(Fresh) \cap Elements(alts) \subseteq D
  BY <1>0, <1>1, HeldIsMetTwice
<1>5. Elements(Fresh) \cap Known \subseteq D
  <2> SUFFICES ASSUME schemas[x].ref \in Known, schemas[x].ref \notin followed
               PROVE  schemas[x].ref \in D
    BY <1>1
  <2>1. PICK h \in visited : schemas[x].ref \in Alternatives(h)
    BY <1>0, HeldOnce DEF Placed
  <2> QED BY <1>0, <2>1, HeldIsMetTwice
<1>6. Elements(alts) \cap Known \subseteq D
  <2> SUFFICES ASSUME NEW a \in Alternatives(x), a \in Known PROVE a \in D
    BY <1>0
  <2>1. a # Root
    BY <1>0, HeldOnce
  <2>2. CASE a \in followed
    <3>1. PICK n \in visited : schemas[n].ref = a
      BY <2>2, <1>0 DEF Placed
    <3> QED BY <1>0, <3>1, HeldIsMetTwice
  <2>3. CASE \E h \in visited : a \in Alternatives(h)
    <3>1. x \in visited
      BY <1>0, <2>3, HeldOnce
    <3> QED BY <1>0, <1>2, <3>1, MetTwiceIsClosed
  <2> QED BY <1>0, <2>1, <2>2, <2>3 DEF Placed
<1>7. Elements(rest) \cap (visited \cup {x}) \subseteq D
  BY <1>2
<1>8. /\ todo \in Seq(Nodes) /\ todo # <<>> /\ alts \in Seq(Nodes)
      /\ visited' = visited \cup {x}
      /\ todo' = Fresh \o alts \o rest
  BY AtAVisit
<1>9. Single(Fresh \o alts \o rest, visited \cup {x}, D)
  <2>1. (Elements(Fresh) \cup Elements(alts)) \cap Elements(rest) \subseteq D
    BY <1>0, <1>5, <1>6
  <2>2. (Elements(Fresh) \cup Elements(alts) \cup Elements(rest)) \cap (visited \cup {x}) \subseteq D
    BY <1>0, <1>5, <1>6, <1>7
  <2> HIDE DEF D
  <2> QED BY <1>1, <1>2, <1>3, <1>4, <1>8, <2>1, <2>2, SingleAfter
<1>10. MetTwice' = D
  BY SameSchemas DEF GoesOn
<1> QED BY <1>8, <1>9, <1>10 DEF RepeatsAreMetTwice

\* A reference is passed over if it leads elsewhere or was followed from another
\* object, or from this one, which then is visited again.
LEMMA ReasonsStay ==
    ASSUME EncodingsInv, SilenceInv, GoesOn
    PROVE  PassedOverForAReason'
<1> DEFINE x == Head(todo)
<1>0. /\ EncodingsTypeOK /\ Placed /\ PassedOverForAReason /\ RepeatsAreMetTwice
      /\ x \in Reached /\ visited \subseteq Reached /\ followed \subseteq Nodes
      /\ todo \in Seq(Nodes) /\ todo # <<>>
  BY AtAVisit
<1>1. ASSUME schemas[x].ref = Elsewhere PROVE Hidden
  BY <1>0, <1>1 DEF Hidden
<1>2. ASSUME schemas[x].ref \in followed PROVE Hidden
  <2>1. PICK n \in visited : schemas[n].ref = schemas[x].ref
    BY <1>0, <1>2 DEF Placed
  <2>2. CASE n # x
    BY <1>0, <1>2, <2>1, <2>2 DEF Hidden, Shared
  <2>3. CASE n = x
    <3>1. x \in MetTwice
      BY <1>0, <2>1, <2>3, SingleNow DEF RepeatsAreMetTwice
    <3> QED BY <1>0, <1>2, <3>1 DEF Hidden, Shared, MetTwice
  <2> QED BY <2>2, <2>3
<1>3. ~inspectable' => Hidden
  BY <1>0, <1>1, <1>2 DEF PassedOverForAReason, GoesOn, Opaque, Here
<1>4. Hidden' <=> Hidden
  BY SameSchemas DEF GoesOn
<1> QED BY <1>3, <1>4 DEF PassedOverForAReason

LEMMA StaysSeparate ==
    ASSUME EncodingsInv, SilenceInv, GoesOn
    PROVE  Separate'
<1> DEFINE x == Head(todo)
<1>0. /\ Separate /\ visited' = visited \cup {x} /\ schemas' = schemas
      /\ inspectable' => inspectable /\ schemas[x].ref \notin followed
  BY AtAVisit DEF GoesOn, Opaque, Here
<1>1. \A n \in visited : schemas[n].ref \in Nodes => schemas[n].ref \in followed
  <2>1. Looked
    BY AtAVisit DEF Looked
  <2> QED BY <2>1, EncodingsAssumption DEF EncodingsInv, NothingMissed
<1> QED BY <1>0, <1>1 DEF Separate

(***************************************************************************)
(* If nothing with a reference inside is on the stack for the second time *)
(* after the visit, nothing was before, and the object met nothing it     *)
(* holds and nothing that holds what it refers to.                         *)
(***************************************************************************)
LEMMA MeetingsStayLight ==
    ASSUME EncodingsInv, SilenceInv, GoesOn
    PROVE  MeetingsAreLight'
<1> DEFINE x == Head(todo)
           rest == Tail(todo)
           L == Light
           alts == Here.alternatives
<1>0. /\ EncodingsTypeOK /\ MeetingsAreLight /\ x \in Nodes /\ visited \subseteq Nodes
      /\ Elements(alts) = Alternatives(x)
      /\ Alternatives(x) \subseteq Nodes
      /\ Known = visited \cup {x} \cup Elements(rest)
      /\ todo \in Seq(Nodes) /\ todo # <<>> /\ alts \in Seq(Nodes)
      /\ visited' = visited \cup {x}
      /\ todo' = Fresh \o alts \o rest
  BY AtAVisit DEF EncodingsInv, EncodingsTypeOK
<1>1. Fresh \in Seq(Nodes) /\ Elements(Fresh) = {schemas[x].ref} \cap (Nodes \ followed)
  BY FreshIsKnown DEF GoesOn, Searching, Here
<1>2. Light' = L /\ \A n : Alternatives(n)' = Alternatives(n) /\ schemas'[n] = schemas[n]
  BY SameSchemas DEF GoesOn
<1>3. /\ followed \subseteq Known
      /\ \A n \in visited : /\ Alternatives(n) \subseteq Known
                            /\ schemas[n].ref \in Nodes => schemas[n].ref \in followed
  <2>1. Looked
    BY AtAVisit DEF Looked
  <2> QED BY <2>1, EncodingsAssumption DEF EncodingsInv, NothingMissed
<1> SUFFICES ASSUME inspectable', Single(todo, visited, Light)',
                    NEW holder \in visited', NEW n \in visited',
                    schemas[n].ref \in Alternatives(holder)
             PROVE  schemas[n].ref \in L
  BY <1>2 DEF MeetingsAreLight
<1>4. inspectable /\ schemas[x].ref \notin followed
  BY DEF GoesOn, Opaque, Here
<1>5. Single(Fresh \o alts \o rest, visited \cup {x}, L)
  BY <1>0, <1>2
<1>6. /\ Apart(rest, L)
      /\ Elements(Fresh) \cap Elements(alts) \subseteq L
      /\ (Elements(Fresh) \cup Elements(alts)) \cap Known \subseteq L
      /\ Elements(rest) \cap (visited \cup {x}) \subseteq L
  <2> HIDE DEF L
  <2>1. /\ Apart(rest, L)
        /\ Elements(Fresh) \cap Elements(alts) \subseteq L
        /\ (Elements(Fresh) \cup Elements(alts)) \cap Elements(rest) \subseteq L
        /\ (Elements(Fresh) \cup Elements(alts) \cup Elements(rest)) \cap (visited \cup {x}) \subseteq L
    <3>1. /\ todo \in Seq(Nodes) /\ todo # <<>>
          /\ Fresh \in Seq(Nodes) /\ alts \in Seq(Nodes)
      BY <1>0, <1>1
    <3> QED BY ONLY <1>5, <3>1, SingleAfter
  <2> QED BY <1>0, <2>1
<1>7. x \in visited => x \in L
  <2> SUFFICES ASSUME x \in visited, x \notin L PROVE FALSE
    OBVIOUS
  <2>1. schemas[x].ref \notin Nodes
    BY <1>3, <1>4
  <2>2. PICK a \in Alternatives(x) : a \notin L
    BY <1>0, <2>1, HeavyAlternative
  <2> QED BY <1>0, <1>3, <1>6, <2>2
<1>8. Single(todo, visited, L)
  <2> HIDE DEF L
  <2> QED BY <1>0, <1>6, <1>7, SingleNow
<1>9. CASE holder \in visited /\ n \in visited
  BY <1>0, <1>4, <1>8, <1>9 DEF MeetingsAreLight
<1>10. CASE holder = x /\ n = x
  BY <1>0, <1>1, <1>4, <1>6, <1>10
<1>11. CASE holder = x /\ n \in visited
  BY <1>0, <1>3, <1>6, <1>11
<1>12. CASE holder \in visited /\ n = x
  <2>1. schemas[x].ref \in Known /\ schemas[x].ref \in Nodes
    BY <1>0, <1>3, <1>12, DocumentsAreNodes
  <2> QED BY <1>1, <1>4, <1>6, <1>12, <2>1
<1> QED BY <1>0, <1>9, <1>10, <1>11, <1>12

LEMMA SilenceInit == EncodingsInit => SilenceInv
BY DEF EncodingsInit, SilenceInv, Looked

LEMMA SilenceStep ==
    ASSUME EncodingsInv, SilenceInv, [EncodingsNext]_encodingsVars
    PROVE  SilenceInv'
<1>1. CASE VisitPlain \/ SkipReference \/ FollowReference
  <2>1. GoesOn
    BY <1>1, WalkGoesOn
  <2>2. outcome' # "uninspectable"
    BY <2>1, AtAVisit
  <2> QED BY <2>1, <2>2, StaysPlaced, RepeatsStayMetTwice, ReasonsStay, StaysSeparate,
             MeetingsStayLight DEF SilenceInv
<1>2. CASE FindProperty \/ FailWalk
  BY <1>2 DEF FindProperty, FailWalk, SilenceInv, Looked
<1>3. CASE EndWalk
  <2>1. /\ Looked /\ outcome' \in {"undeclared", "uninspectable"}
        /\ outcome' = "uninspectable" => ~inspectable
        /\ UNCHANGED <<schemas, todo, visited, followed, inspectable>>
    BY <1>3 DEF EndWalk, Walking, Looked
  <2>2. Known' = Known
    BY <2>1 DEF Known
  <2> QED
    BY <2>1, <2>2, SameSchemas DEF SilenceInv, Placed, RepeatsAreMetTwice, PassedOverForAReason,
       Separate, MeetingsAreLight
<1>4. CASE \E p \in Properties : BeginWalk(p)
  <2>1. /\ todo' = <<Root>> /\ visited' = {} /\ followed' = {} /\ inspectable'
        /\ outcome' = "walking"
    BY <1>4 DEF BeginWalk
  <2>2. Elements(todo') = {Root} /\ \A D : Apart(todo', D)
    BY <2>1, EncodingsAssumption, ElementsOfSingle DEF Apart
  <2> QED
    BY <2>1, <2>2 DEF SilenceInv, Placed, Known, RepeatsAreMetTwice, Single, PassedOverForAReason,
       Separate, MeetingsAreLight
<1>5. CASE UNCHANGED encodingsVars
  <2>1. UNCHANGED <<schemas, todo, visited, followed, inspectable, outcome>>
    BY <1>5 DEF encodingsVars, walk
  <2>2. Known' = Known /\ (Looked' <=> Looked)
    BY <2>1 DEF Known, Looked
  <2> QED
    BY <2>1, <2>2, SameSchemas DEF SilenceInv, Placed, RepeatsAreMetTwice, PassedOverForAReason,
       Separate, MeetingsAreLight
<1> QED BY <1>1, <1>2, <1>3, <1>4, <1>5 DEF EncodingsNext, Walk

\* The reasons of the walk for its silence, exactly.
SilenceExplained ==
    outcome \in {"undeclared", "uninspectable"} => (outcome = "uninspectable" <=> Hidden)

LEMMA SilenceInvExplains == EncodingsInv /\ SilenceInv => SilenceExplained
<1> SUFFICES ASSUME EncodingsInv, SilenceInv, outcome \in {"undeclared", "uninspectable"}
             PROVE  outcome = "uninspectable" <=> Hidden
  BY DEF SilenceExplained
<1>1. Looked /\ Reached \subseteq visited /\ todo = <<>>
  BY AllIsVisited DEF Looked
<1>2. ASSUME outcome = "uninspectable" PROVE Hidden
  BY <1>1, <1>2 DEF SilenceInv, PassedOverForAReason
<1>3. ASSUME outcome = "undeclared", Hidden PROVE FALSE
  <2>1. inspectable /\ EncodingsTypeOK
    BY <1>3 DEF EncodingsInv, Ended
  <2>2. \A m \in Reached : schemas[m].ref # Elsewhere
    BY <1>3, InvIsSound DEF WalkIsSound
  <2>3. ASSUME NEW m \in Reached, NEW k \in Reached,
               m # k, schemas[m].ref = schemas[k].ref, schemas[m].ref \in Nodes
        PROVE  FALSE
    BY <1>1, <2>1, <2>3 DEF SilenceInv, Separate
  <2>4. Single(todo, visited, Light)
    BY <1>1, ElementsOfNothing DEF Single, Apart
  <2>5. ASSUME NEW holder \in Reached, NEW k \in Reached, NEW m \in Reached,
               m \in Alternatives(holder), schemas[k].ref = m,
               NEW j \in Inside(m), schemas[j].ref \in Nodes
        PROVE  FALSE
    <3>1. m \in Light
      BY <1>1, <2>1, <2>4, <2>5 DEF SilenceInv, MeetingsAreLight
    <3> QED BY <2>5, <3>1 DEF Light
  <2> QED BY <1>3, <2>2, <2>3, <2>5 DEF Hidden, Shared
<1> QED BY <1>2, <1>3

LEMMA SilenceHolds == EncodingsSpec => [](EncodingsInv /\ SilenceInv)
BY EncodingsInitHolds, EncodingsStepHolds, SilenceInit, SilenceStep, PTL DEF EncodingsSpec

(***************************************************************************)
(* Whatever the schemas are, if none of their references is met twice an  *)
(* encoding of a property that no object declares goes unreported exactly *)
(* if part of the schema is in another document.                           *)
(***************************************************************************)
THEOREM UndeclaredAreReported == EncodingsSpec => []UndeclaredIsReported
<1>1. SilenceExplained => UndeclaredIsReported
  BY DEF SilenceExplained, UndeclaredIsReported, Hidden
<1> QED BY <1>1, SilenceHolds, SilenceInvExplains, PTL

=============================================================================
