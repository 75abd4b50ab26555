---------------------------- MODULE References ----------------------------
(***************************************************************************)
(* The resolution of a component reference (generator.go, resolveParameter*)
(* and resolveSecurityScheme, which are the same code on two maps).       *)
(*                                                                         *)
(* A component may be a reference to another component of its section,    *)
(* which may be one too, and nothing keeps applications from registering  *)
(* references that run in a circle.  The recursion carries the names it   *)
(* has passed and gives up when it meets one again; each of its calls is a*)
(* step here, on the parameter or scheme in hand.                         *)
(***************************************************************************)

CONSTANTS Names,      \* names of the components of all sections
          Concretes,  \* components that are not references
          External,   \* a reference to another document
          Missing     \* a local reference to nothing of the section

\* What stands in a document where a component may: a concrete one, or a
\* reference, which is known by the name it refers to.
Values == Names \cup Concretes \cup {External, Missing}

ASSUME ReferencesAssumption ==
    /\ Names \cap (Concretes \cup {External, Missing}) = {}
    /\ Concretes \cap {External, Missing} = {}
    /\ External # Missing

VARIABLES components,  \* name -> the component registered under it
          origin,      \* history: what the last resolution was asked for
          current,     \* the argument of the call in progress
          seen,        \* seen: the names passed
          verdict      \* what the resolution returned, once it has

resolution == <<origin, current, seen, verdict>>
referencesVars == <<components, resolution>>

ReferencesTypeOK ==
    /\ components \in [Names -> Values]
    /\ origin \in Values
    /\ current \in Values
    /\ seen \subseteq Names
    /\ verdict \in {"running", "known", "unknown"}

\* No resolution has begun.
ReferencesInit ==
    /\ components \in [Names -> Values]
    /\ origin = Missing
    /\ current = Missing
    /\ seen = {}
    /\ verdict = "unknown"

-----------------------------------------------------------------------------

Running == verdict = "running"

Begin(value) ==
    /\ ~Running
    /\ origin' = value
    /\ current' = value
    /\ seen' = {}
    /\ verdict' = "running"
    /\ UNCHANGED components

SettleKnown ==
    /\ Running
    /\ current \in Concretes
    /\ verdict' = "known"
    /\ UNCHANGED <<components, origin, current, seen>>

\* Mutant: the circle is noticed only at the name before.
MetJustNow == current \in Names /\ components[current] = current

\* Mutant: a reference is followed once, and not what it leads to.
MetAnything == current \in Names /\ seen # {}

Met == current \in Names /\ current \in seen

\* Other documents are not read, and a circle leads nowhere.
SettleUnknown ==
    /\ Running
    /\ current \in {External, Missing} \/ Met
    /\ verdict' = "unknown"
    /\ UNCHANGED <<components, origin, current, seen>>

\* Mutant: what comes next is recorded, and not what was passed.
EnterNext ==
    /\ seen' = seen \cup {components[current]}
    /\ current' = components[current]

Enter ==
    /\ seen' = seen \cup {current}
    /\ current' = components[current]

Follow ==
    /\ Running
    /\ current \in Names
    /\ ~Met
    /\ Enter
    /\ UNCHANGED <<components, origin, verdict>>

Resolve == SettleKnown \/ SettleUnknown \/ Follow

ReferencesNext == Resolve \/ \E value \in Values : Begin(value)

ReferencesSpec == ReferencesInit /\ [][ReferencesNext]_referencesVars

-----------------------------------------------------------------------------
(***************************************************************************)
(* What a value leads to, with no order and no names passed: what is met  *)
(* along every set of names that the value, and each name of the set,     *)
(* stays within.                                                           *)
(***************************************************************************)
Along(value, S) == {value} \cup {components[n] : n \in S}

Trails(value) == {S \in SUBSET Names : Along(value, S) \cap Names \subseteq S}

LeadsTo(value, end) == \A S \in Trails(value) : end \in Along(value, S)

Ends(value) == {c \in Concretes : LeadsTo(value, c)}

(***************************************************************************)
(* Whatever the references of the components look like, circles included, *)
(* a resolution returns the one concrete component that its reference     *)
(* leads to, and says that it is unknown only if there is none.           *)
(***************************************************************************)
ResolutionIsExact ==
    /\ verdict = "known" => Ends(origin) = {current}
    /\ verdict = "unknown" => Ends(origin) = {}

\* A call of the recursion is the last one or passes a name for the first time.
Progresses == Running => ~Running' \/ (seen \subseteq seen' /\ seen # seen')

(***************************************************************************)
(* No resolution goes round a circle: it ends after as many calls as there*)
(* are names, and one more.                                               *)
(***************************************************************************)
ResolutionProgresses == [][Progresses]_resolution
=============================================================================
