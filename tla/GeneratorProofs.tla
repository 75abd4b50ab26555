--------------------------- MODULE GeneratorProofs --------------------------
(***************************************************************************)
(* Theorems about Generator, for every route table, every set of drafts   *)
(* and every order in which they are bound.                               *)
(***************************************************************************)
EXTENDS Generator, FiniteSetTheorems, TLAPS

TypeInv == input \in Inputs /\ GeneratorTypeOK

LEMMA InputTyped ==
    ASSUME input \in Inputs
    PROVE  /\ input.table \in Seq(Rows)
           /\ Listed \subseteq Rows
           /\ Documented \subseteq Rows
           /\ \A s \in Documented : input.drafts[s] \in Drafts
<1>1. input.table \in Seq(Rows)
  BY GeneratorAssumption
<1>2. Listed \subseteq Rows
  BY <1>1 DEF Listed
<1>3. Documented \subseteq Rows /\ \A s \in Documented : input.drafts[s] \in Drafts
  BY GeneratorAssumption DEF Documented
<1> QED BY <1>1, <1>2, <1>3

LEMMA RowTyped ==
    ASSUME NEW r \in Rows
    PROVE  /\ r.method \in HttpMethods \cup {AnyMethod}
           /\ r.name \in Texts
           /\ Methods(r) \subseteq HttpMethods \cup {AnyMethod}
BY GeneratorAssumption DEF Row, Methods

\* What a builder left in a draft, or the draft of an undocumented row.
LEMMA DraftTyped ==
    ASSUME input \in Inputs, NEW source \in Documented \cup {Unbound}
    PROVE  /\ DraftOf(source).methods \subseteq HttpMethods
           /\ DraftOf(source).operationIDs \in [HttpMethods -> Texts]
           /\ DraftOf(source).operationID \in Texts
<1>1. CASE source = Unbound
  BY <1>1, TextAssumption DEF DraftOf, UndocumentedDraft, EmptyDraft
<1>2. CASE source # Unbound
  <2>1. input.drafts[source] \in Drafts
    BY <1>2, InputTyped
  <2>2. DraftOf(source) = input.drafts[source]
    BY <1>2 DEF DraftOf
  <2> QED BY <2>1, <2>2 DEF Drafts
<1> QED BY <1>1, <1>2

LEMMA MethodsTyped ==
    ASSUME input \in Inputs, NEW r \in Listed, NEW source \in Documented \cup {Unbound}
    PROVE  /\ Wanted(r, source) \subseteq HttpMethods
           /\ MethodIssues(r, source) \subseteq Issues
<1>1. r \in Rows /\ Chosen(source) \subseteq HttpMethods
  BY InputTyped, DraftTyped DEF Chosen
<1>2. CASE IsAny(r)
  BY <1>1, <1>2 DEF Wanted, MethodsOf, MethodIssues, Issues
<1>3. CASE ~IsAny(r)
  <2>1. r.method \in HttpMethods
    BY <1>1, <1>3, RowTyped DEF IsAny
  <2> QED BY <1>1, <1>3, <2>1 DEF Wanted, MethodsOf, MethodIssues, Issues
<1> QED BY <1>2, <1>3

LEMMA OperationIDTyped ==
    ASSUME input \in Inputs, NEW r \in Listed, NEW m \in HttpMethods,
           NEW source \in Documented \cup {Unbound}
    PROVE  OperationID(r, m, source) \in Texts
<1>1. r \in Rows /\ GivenID(m, source) \in Texts
  BY InputTyped, DraftTyped DEF GivenID
<1>2. r.name \in Texts
  BY <1>1, RowTyped
<1>3. AutomaticID(r, m, source) \in Texts
  BY <1>1, <1>2, GeneratorAssumption DEF AutomaticID
<1> QED BY <1>1, <1>3 DEF OperationID

LEMMA RowIssuesTyped ==
    ASSUME input \in Inputs, NEW r \in Listed, NEW source \in Documented \cup {Unbound},
           NEW operations, NEW ids
    PROVE  RowIssues(r, source, operations, ids) \subseteq Issues
<1> DEFINE fresh == Fresh(r, source, operations)
           id    == [m \in fresh |-> OperationID(r, m, source)]
<1>1. r \in Rows /\ Wanted(r, source) \subseteq HttpMethods /\ fresh \subseteq HttpMethods
  BY InputTyped, MethodsTyped DEF Fresh
<1>2. \A m \in fresh : id[m] \in Texts
  BY <1>1, OperationIDTyped
<1>3. Collisions(fresh, id, ids) \subseteq fresh
  BY DEF Collisions
<1>4. {<<"operationId", id[m]>> : m \in Collisions(fresh, id, ids)} \subseteq Issues
  <2> HIDE DEF fresh, id
  <2>1. \A m \in Collisions(fresh, id, ids) : id[m] \in Texts
    BY <1>2, <1>3
  <2> QED BY <2>1 DEF Issues
<1>5. {<<"refused", r, m>> : m \in Wanted(r, source) \ fresh} \subseteq Issues
  BY <1>1 DEF Issues
<1>6. {<<"invalid", r, m>> : m \in {n \in fresh : ~OperationIsValid(r, DraftOf(source))}} \subseteq Issues
  BY <1>1 DEF Issues
<1> QED BY <1>4, <1>5, <1>6, MethodsTyped DEF RowIssues

LEMMA OperationsTyped ==
    ASSUME input \in Inputs, NEW r \in Listed, NEW source \in Documented \cup {Unbound},
           NEW methods \in SUBSET HttpMethods
    PROVE  {Operation(r, m, source) : m \in Placed(methods)} \subseteq Operations
<1> SUFFICES ASSUME NEW m \in Placed(methods)
             PROVE  Operation(r, m, source) \in Operations
  OBVIOUS
<1>1. m \in HttpMethods /\ m \in Supported
  BY DEF Placed
<1> QED BY <1>1, OperationIDTyped DEF Operation, Operations

LEMMA BindingTyped ==
    ASSUME TypeInv, NEW g \in Generations, NEW s \in Documented \cap Listed
    PROVE  /\ BindingsAfter(s, gen[g].bindings) \in [Listed -> Documented \cup {Unbound}]
           /\ UndeclaredIDs(s) \subseteq Issues
           /\ {<<"both", s, r>> : r \in Taken(s, gen[g].bindings)} \subseteq Issues
<1>1. gen[g].bindings \in [Listed -> Documented \cup {Unbound}]
  BY DEF TypeInv, GeneratorTypeOK, Progress
<1>2. s \in Rows /\ Taken(s, gen[g].bindings) \subseteq Rows
  BY InputTyped DEF TypeInv, Taken, Candidates
<1> QED BY <1>1, <1>2 DEF BindingsAfter, UndeclaredIDs, Issues

-----------------------------------------------------------------------------

LEMMA TypeInit ==
    ASSUME GeneratorInit
    PROVE  TypeInv
<1>1. Listed \cup Documented \subseteq Rows /\ input.table \in Seq(Rows)
  BY InputTyped DEF GeneratorInit
<1>2. 1 \in 1 .. (Len(input.table) + 1)
  BY <1>1
<1>3. [r \in Listed |-> Unbound] \in [Listed -> Documented \cup {Unbound}]
  OBVIOUS
<1> QED BY <1>1, <1>2, <1>3 DEF GeneratorInit, TypeInv, GeneratorTypeOK, Progress, Documented

\* Where the loop over the table stands.
LEMMA CurrentTyped ==
    ASSUME TypeInv, NEW g \in Generations, AtRow(g)
    PROVE  /\ gen[g].next \in DOMAIN input.table
           /\ gen[g].next + 1 \in 1 .. (Len(input.table) + 1)
           /\ Current(g) \in Listed
           /\ Author(g) \in Documented \cup {Unbound}
<1>1. input.table \in Seq(Rows)
  BY InputTyped DEF TypeInv
<1>2. gen[g].next \in 1 .. (Len(input.table) + 1) /\ gen[g].next <= Len(input.table)
  BY DEF TypeInv, GeneratorTypeOK, Progress, AtRow
<1>3. gen[g].next \in DOMAIN input.table /\ Current(g) \in Listed
  BY <1>1, <1>2 DEF Current, Listed
<1>4. gen[g].bindings \in [Listed -> Documented \cup {Unbound}]
  BY DEF TypeInv, GeneratorTypeOK, Progress
<1> QED BY <1>1, <1>2, <1>3, <1>4 DEF Author

LEMMA WebhooksTyped ==
    ASSUME input \in Inputs
    PROVE  \A w \in DOMAIN input.webhooks : input.webhooks[w] \in Texts
BY GeneratorAssumption

LEMMA TypeStep ==
    ASSUME TypeInv, [GeneratorNext]_vars
    PROVE  TypeInv'
<1>1. CASE UNCHANGED vars
  <2>1. input' = input /\ gen' = gen
    BY <1>1 DEF vars
  <2>2. Progress' = Progress /\ Listed' = Listed /\ Documented' = Documented
    BY <2>1 DEF Progress, Operations, Listed, Documented
  <2> QED BY <2>1, <2>2 DEF TypeInv, GeneratorTypeOK
<1>2. CASE GeneratorNext
  <2>1. PICK g \in Generations :
            \/ \E s \in Documented : BindAbsent(g, s) \/ Bind(g, s)
            \/ SkipRow(g) \/ DescribeRow(g) \/ GenerateWebhooks(g)
    BY <1>2 DEF GeneratorNext
  <2>2. UNCHANGED input
    BY <2>1 DEF BindAbsent, Bind, SkipRow, DescribeRow, GenerateWebhooks
  <2>3. Progress' = Progress /\ Listed' = Listed /\ Documented' = Documented
    BY <2>2 DEF Progress, Operations, Listed, Documented
  <2>4. SUFFICES gen' \in [Generations -> Progress]
    BY <2>2, <2>3 DEF TypeInv, GeneratorTypeOK
  <2> DEFINE p == gen[g]
  <2>5. gen \in [Generations -> Progress] /\ p \in Progress
    BY DEF TypeInv, GeneratorTypeOK
  <2>6. ASSUME NEW s \in Documented, BindAbsent(g, s)
        PROVE  gen' \in [Generations -> Progress]
    <3>1. p.issues \cup {<<"absent", s>>} \subseteq Issues
      BY <2>5, InputTyped DEF Progress, Issues, TypeInv
    <3> QED BY <2>5, <2>6, <3>1 DEF BindAbsent, Progress
  <2>7. ASSUME NEW s \in Documented, Bind(g, s)
        PROVE  gen' \in [Generations -> Progress]
    <3>1. s \in Documented \cap Listed
      BY <2>7 DEF Bind
    <3>2. BindingsAfter(s, p.bindings) \in [Listed -> Documented \cup {Unbound}]
      BY <3>1, BindingTyped
    <3>3. p.issues \cup UndeclaredIDs(s) \cup {<<"both", s, r>> : r \in Taken(s, p.bindings)}
             \subseteq Issues
      BY <2>5, <3>1, BindingTyped DEF Progress
    <3> QED BY <2>5, <2>7, <3>2, <3>3 DEF Bind, Progress
  <2>8. ASSUME SkipRow(g)
        PROVE  gen' \in [Generations -> Progress]
    BY <2>5, <2>8, CurrentTyped DEF SkipRow, Progress
  <2>9. ASSUME DescribeRow(g)
        PROVE  gen' \in [Generations -> Progress]
    <3> DEFINE r      == Current(g)
               source == Author(g)
               fresh  == Fresh(r, source, p.operations)
    <3>1. r \in Listed /\ source \in Documented \cup {Unbound}
             /\ p.next + 1 \in 1 .. (Len(input.table) + 1)
      BY <2>9, CurrentTyped DEF DescribeRow
    <3>2. fresh \subseteq HttpMethods
      BY <3>1, MethodsTyped DEF TypeInv, Fresh
    <3>3. {Operation(r, m, source) : m \in Placed(fresh)} \subseteq Operations
      <4> HIDE DEF r, source, fresh
      <4> QED BY <3>1, <3>2, OperationsTyped DEF TypeInv
    <3>4. {OperationID(r, m, source) : m \in fresh} \subseteq Texts
      <4> HIDE DEF r, source, fresh
      <4> QED BY <3>1, <3>2, OperationIDTyped DEF TypeInv
    <3>5. RowIssues(r, source, p.operations, p.ids) \subseteq Issues
      BY <3>1, RowIssuesTyped DEF TypeInv
    <3>6. gen' = [gen EXCEPT
              ![g].next = @ + 1,
              ![g].operations = @ \cup {Operation(r, m, source) : m \in Placed(fresh)},
              ![g].ids = @ \cup {OperationID(r, m, source) : m \in fresh},
              ![g].issues = @ \cup RowIssues(r, source, p.operations, p.ids)]
      BY <2>9 DEF DescribeRow
    <3> HIDE DEF r, source, fresh
    <3> QED BY <2>5, <3>1, <3>3, <3>4, <3>5, <3>6 DEF Progress
  <2>10. ASSUME GenerateWebhooks(g)
         PROVE  gen' \in [Generations -> Progress]
    <3> DEFINE clashes == Collisions(DOMAIN input.webhooks, input.webhooks, p.ids)
    <3>1. \A w \in DOMAIN input.webhooks : input.webhooks[w] \in Texts
      BY WebhooksTyped DEF TypeInv
    <3>2. clashes \subseteq DOMAIN input.webhooks
      BY DEF Collisions
    <3>3. {input.webhooks[w] : w \in DOMAIN input.webhooks} \subseteq Texts
      BY <3>1
    <3>4. {<<"operationId", input.webhooks[w]>> : w \in clashes} \subseteq Issues
      BY <3>1, <3>2 DEF Issues
    <3>5. gen' = [gen EXCEPT
              ![g].finished = TRUE,
              ![g].ids = @ \cup {input.webhooks[w] : w \in DOMAIN input.webhooks},
              ![g].issues = @ \cup {<<"operationId", input.webhooks[w]>> : w \in clashes}]
      BY <2>10 DEF GenerateWebhooks
    <3> HIDE DEF clashes
    <3> QED BY <2>5, <3>3, <3>4, <3>5 DEF Progress
  <2> QED BY <2>1, <2>6, <2>7, <2>8, <2>9, <2>10
<1> QED BY <1>1, <1>2

(***************************************************************************)
(* The variables keep their types: in particular no method without a place*)
(* in a path item is written, and every binding is a documented row.      *)
(***************************************************************************)
THEOREM GeneratorTypeCorrect == GeneratorSpec => []GeneratorTypeOK
<1>1. TypeInv => GeneratorTypeOK
  BY DEF TypeInv
<1> QED BY <1>1, TypeInit, TypeStep, PTL DEF GeneratorSpec

-----------------------------------------------------------------------------
(* What a step does to one generation, field by field. *)

Keeps(g, fields) == \A f \in fields : gen'[g][f] = gen[g][f]

Lost(g) ==
    \E s \in gen[g].todo \ Listed :
        /\ gen'[g].todo = gen[g].todo \ {s}
        /\ gen'[g].issues # {}
        /\ Keeps(g, {"bindings", "next", "operations", "ids", "finished"})

Bound(g) ==
    \E s \in gen[g].todo \cap Listed :
        /\ gen'[g].todo = gen[g].todo \ {s}
        /\ gen'[g].bindings = BindingsAfter(s, gen[g].bindings)
        /\ gen[g].issues \subseteq gen'[g].issues
        /\ gen'[g].issues = {} <=>
              gen[g].issues = {} /\ UndeclaredIDs(s) = {} /\ Taken(s, gen[g].bindings) = {}
        /\ Keeps(g, {"next", "operations", "ids", "finished"})

Passed(g) ==
    /\ AtRow(g)
    /\ Skipped(Current(g), Author(g))
    /\ gen'[g].next = gen[g].next + 1
    /\ Keeps(g, {"todo", "bindings", "operations", "ids", "issues", "finished"})

Described(g) ==
    LET fresh == Fresh(Current(g), Author(g), gen[g].operations)
    IN  /\ AtRow(g)
        /\ ~Skipped(Current(g), Author(g))
        /\ gen'[g].next = gen[g].next + 1
        /\ gen'[g].operations =
              gen[g].operations \cup {Operation(Current(g), m, Author(g)) : m \in Placed(fresh)}
        /\ gen'[g].ids = gen[g].ids \cup {OperationID(Current(g), m, Author(g)) : m \in fresh}
        /\ gen'[g].issues = gen[g].issues
              \cup RowIssues(Current(g), Author(g), gen[g].operations, gen[g].ids)
        /\ Keeps(g, {"todo", "bindings", "finished"})

Closed(g) ==
    /\ gen[g].todo = {}
    /\ gen[g].next > Len(input.table)
    /\ gen'[g].finished
    /\ gen'[g].ids = gen[g].ids \cup {input.webhooks[w] : w \in DOMAIN input.webhooks}
    /\ gen[g].issues \subseteq gen'[g].issues
    /\ gen'[g].issues = {} <=>
          /\ gen[g].issues = {}
          /\ Collisions(DOMAIN input.webhooks, input.webhooks, gen[g].ids) = {}
    /\ Keeps(g, {"todo", "bindings", "next", "operations"})

LEMMA StepCases ==
    ASSUME TypeInv, [GeneratorNext]_vars, NEW g \in Generations
    PROVE  /\ input' = input
           /\ \/ gen'[g] = gen[g]
              \/ Lost(g) \/ Bound(g) \/ Passed(g) \/ Described(g)
              \/ Closed(g) /\ ~gen[g].finished
<1>1. CASE UNCHANGED vars
  BY <1>1 DEF vars
<1>2. CASE GeneratorNext
  <2>1. PICK h \in Generations :
            \/ \E s \in Documented : BindAbsent(h, s) \/ Bind(h, s)
            \/ SkipRow(h) \/ DescribeRow(h) \/ GenerateWebhooks(h)
    BY <1>2 DEF GeneratorNext
  <2>2. gen \in [Generations -> Progress]
    BY DEF TypeInv, GeneratorTypeOK
  <2>3. input' = input
    BY <2>1 DEF BindAbsent, Bind, SkipRow, DescribeRow, GenerateWebhooks
  <2>4. CASE g # h
    <3>1. gen'[g] = gen[g]
      BY <2>1, <2>2, <2>4 DEF BindAbsent, Bind, SkipRow, DescribeRow, GenerateWebhooks
    <3> QED BY <2>3, <3>1
  <2>5. CASE g = h
    <3> gen[g] \in Progress
      BY <2>2
    <3>1. ASSUME NEW s \in Documented, BindAbsent(g, s)
          PROVE  Lost(g)
      BY <2>2, <3>1 DEF BindAbsent, Lost, Keeps, Progress
    <3>2. ASSUME NEW s \in Documented, Bind(g, s)
          PROVE  Bound(g)
      <4>1. gen'[g] = [gen[g] EXCEPT
                  !.todo = @ \ {s},
                  !.bindings = BindingsAfter(s, @),
                  !.issues = @ \cup UndeclaredIDs(s)
                               \cup {<<"both", s, r>> : r \in Taken(s, gen[g].bindings)}]
        BY <2>2, <3>2 DEF Bind
      <4>2. /\ gen'[g].todo = gen[g].todo \ {s}
            /\ gen'[g].bindings = BindingsAfter(s, gen[g].bindings)
            /\ Keeps(g, {"next", "operations", "ids", "finished"})
        BY <4>1 DEF Keeps, Progress
      <4>3. gen'[g].issues = gen[g].issues \cup UndeclaredIDs(s)
                               \cup {<<"both", s, r>> : r \in Taken(s, gen[g].bindings)}
        BY <4>1 DEF Progress
      <4>4. ASSUME NEW r \in Taken(s, gen[g].bindings)
            PROVE  gen'[g].issues # {}
        BY <4>3
      <4> QED BY <3>2, <4>2, <4>3, <4>4 DEF Bind, Bound
    <3>3. ASSUME SkipRow(g)
          PROVE  Passed(g)
      BY <2>2, <3>3 DEF SkipRow, Passed, Keeps, Progress
    <3>4. ASSUME DescribeRow(g)
          PROVE  Described(g)
      BY <2>2, <3>4 DEF DescribeRow, Described, Keeps, Progress
    <3>5. ASSUME GenerateWebhooks(g)
          PROVE  Closed(g) /\ ~gen[g].finished
      <4> DEFINE clashes == Collisions(DOMAIN input.webhooks, input.webhooks, gen[g].ids)
      <4>1. gen'[g] = [gen[g] EXCEPT
                  !.finished = TRUE,
                  !.ids = @ \cup {input.webhooks[w] : w \in DOMAIN input.webhooks},
                  !.issues = @ \cup {<<"operationId", input.webhooks[w]>> : w \in clashes}]
        BY <2>2, <3>5 DEF GenerateWebhooks
      <4> HIDE DEF clashes
      <4>2. gen'[g].issues = {} <=> gen[g].issues = {} /\ clashes = {}
        <5>1. gen'[g].issues =
                 gen[g].issues \cup {<<"operationId", input.webhooks[v]>> : v \in clashes}
          BY <4>1 DEF Progress
        <5> QED BY <5>1
      <4>3. gen'[g].finished = TRUE /\ gen[g].issues \subseteq gen'[g].issues
              /\ gen'[g].ids = gen[g].ids \cup {input.webhooks[w] : w \in DOMAIN input.webhooks}
        BY <4>1 DEF Progress
      <4>4. Keeps(g, {"todo", "bindings", "next", "operations"})
        BY <4>1 DEF Progress, Keeps
      <4> QED BY <3>5, <4>2, <4>3, <4>4 DEF GenerateWebhooks, Closed, clashes
    <3> QED BY <2>1, <2>3, <2>5, <3>1, <3>2, <3>3, <3>4, <3>5
  <2> QED BY <2>4, <2>5
<1> QED BY <1>1, <1>2

-----------------------------------------------------------------------------
(* Own drafts. *)

OwnInv == TypeInv /\ OwnDraftsWin

LEMMA OwnStep ==
    ASSUME OwnInv, [GeneratorNext]_vars
    PROVE  OwnDraftsWin'
<1> USE DEF OwnInv
<1>0. (Listed' = Listed /\ Documented' = Documented) \/ Generations = {}
  BY StepCases DEF Listed, Documented
<1> SUFFICES ASSUME NEW g \in Generations, NEW s \in (Documented \cap Listed) \ gen'[g].todo
             PROVE  gen'[g].bindings[s] = s
  BY <1>0 DEF OwnDraftsWin
<1>1. s \notin gen[g].todo => gen[g].bindings[s] = s
  BY DEF OwnDraftsWin
<1>2. CASE Bound(g)
  <2>1. PICK t \in gen[g].todo \cap Listed :
            /\ gen'[g].todo = gen[g].todo \ {t}
            /\ gen'[g].bindings = BindingsAfter(t, gen[g].bindings)
    BY <1>2 DEF Bound
  <2>2. CASE s = t
    BY <2>1, <2>2 DEF BindingsAfter
  <2>3. CASE s # t
    <3>1. gen[g].bindings[s] = s
      BY <1>1, <2>1, <2>3
    <3>2. s # Unbound
      BY InputTyped, GeneratorAssumption DEF TypeInv
    <3>3. s \in Candidates(t) => s \in Taken(t, gen[g].bindings)
      BY <2>3, <3>1, <3>2 DEF Taken
    <3> QED BY <2>1, <2>3, <3>1, <3>3 DEF BindingsAfter
  <2> QED BY <2>2, <2>3
<1>3. CASE gen'[g] = gen[g] \/ Passed(g) \/ Described(g) \/ Closed(g)
  BY <1>1, <1>3 DEF Passed, Described, Closed, Keeps
<1>4. CASE Lost(g)
  BY <1>1, <1>4 DEF Lost, Keeps
<1> QED BY <1>2, <1>3, <1>4, StepCases

(***************************************************************************)
(* Whatever the order of the map, a documented route is described by its  *)
(* own draft.                                                              *)
(***************************************************************************)
THEOREM OwnDraftsAreKept == GeneratorSpec => []OwnDraftsWin
<1>1. GeneratorInit => OwnInv
  BY TypeInit DEF GeneratorInit, OwnInv, OwnDraftsWin, Documented
<1>2. OwnInv /\ [GeneratorNext]_vars => OwnInv'
  BY TypeStep, OwnStep DEF OwnInv
<1>3. OwnInv => OwnDraftsWin
  BY DEF OwnInv
<1> QED BY <1>1, <1>2, <1>3, PTL DEF GeneratorSpec

-----------------------------------------------------------------------------
(* Uniqueness: what the loop has written is recorded in ids, so that later *)
(* operations and the webhooks are compared with it.                       *)

PathsUnique(g) ==
    \A o, p \in gen[g].operations : o.method = p.method /\ o.row.path = p.row.path => o = p

IDsRecorded(g) == \A o \in gen[g].operations : o.id \in gen[g].ids

IDsUnique(g) ==
    gen[g].issues = {} =>
        \A o, p \in gen[g].operations : o.id = p.id /\ o.id # Blank => o = p

WebhooksApart(g) ==
    gen[g].finished /\ gen[g].issues = {} =>
        \A o \in gen[g].operations, w \in DOMAIN input.webhooks :
            o.id = input.webhooks[w] => o.id = Blank

Ended(g) == gen[g].finished => gen[g].todo = {} /\ gen[g].next > Len(input.table)

UniqueInv ==
    /\ TypeInv
    /\ \A g \in Generations :
          PathsUnique(g) /\ IDsRecorded(g) /\ IDsUnique(g) /\ WebhooksApart(g) /\ Ended(g)

\* A position of the loop is no end of it.
LEMMA NotEnded ==
    ASSUME UniqueInv, NEW g \in Generations, AtRow(g)
    PROVE  ~gen[g].finished
<1>1. input.table \in Seq(Rows) /\ gen[g].next \in 1 .. (Len(input.table) + 1)
  BY InputTyped DEF UniqueInv, TypeInv, GeneratorTypeOK, Progress
<1> QED BY <1>1 DEF UniqueInv, Ended, AtRow

LEMMA UniqueStep ==
    ASSUME UniqueInv, [GeneratorNext]_vars, NEW g \in Generations
    PROVE  (PathsUnique(g) /\ IDsRecorded(g) /\ IDsUnique(g) /\ WebhooksApart(g) /\ Ended(g))'
<1>0. TypeInv /\ input' = input
  BY StepCases DEF UniqueInv
<1>1. PathsUnique(g) /\ IDsRecorded(g) /\ IDsUnique(g) /\ WebhooksApart(g) /\ Ended(g)
  BY DEF UniqueInv
<1> USE DEF PathsUnique, IDsRecorded, IDsUnique, WebhooksApart, Ended
<1>2. CASE gen'[g] = gen[g]
  BY <1>0, <1>1, <1>2
<1>3. CASE Lost(g) \/ Bound(g)
  <2>1. /\ ~gen[g].finished /\ gen'[g].finished = gen[g].finished
        /\ gen'[g].operations = gen[g].operations /\ gen'[g].ids = gen[g].ids
        /\ gen'[g].issues = {} => gen[g].issues = {}
    BY <1>1, <1>3 DEF Lost, Bound, Keeps
  <2> QED BY <1>1, <2>1
<1>4. CASE Passed(g)
  <2>1. ~gen[g].finished
    BY <1>4, NotEnded DEF Passed
  <2> QED BY <1>1, <1>4, <2>1 DEF Passed, Keeps
<1>5. CASE Described(g)
  <2> DEFINE r       == Current(g)
             source  == Author(g)
             fresh   == Fresh(r, source, gen[g].operations)
             id      == [m \in fresh |-> OperationID(r, m, source)]
             written == {Operation(r, m, source) : m \in Placed(fresh)}
  <2>1. ~gen[g].finished /\ gen'[g].finished = gen[g].finished
    BY <1>5, NotEnded DEF Described, Keeps
  <2>2. /\ gen'[g].operations = gen[g].operations \cup written
        /\ gen'[g].ids = gen[g].ids \cup {OperationID(r, m, source) : m \in fresh}
        /\ gen'[g].issues = gen[g].issues \cup RowIssues(r, source, gen[g].operations, gen[g].ids)
    BY <1>5 DEF Described
  <2>3. \A o \in written : \E m \in fresh :
            o.row = r /\ o.method = m /\ o = Operation(r, m, source)
              /\ o.id = OperationID(r, m, source)
    BY DEF Placed, Operation
  <2>4. \A m \in fresh : ~Repeats(r, m, gen[g].operations)
    BY DEF Fresh
  <2>5. PathsUnique(g)'
    <3> SUFFICES ASSUME NEW o \in gen[g].operations \cup written,
                        NEW p \in gen[g].operations \cup written,
                        o.method = p.method, o.row.path = p.row.path
                 PROVE  o = p
      BY <2>2
    <3> HIDE DEF r, source, fresh, written
    <3>1. CASE o \in gen[g].operations /\ p \in gen[g].operations
      BY <1>1, <3>1
    <3>2. CASE o \in written /\ p \in written
      BY <2>3, <3>2
    <3>3. CASE o \in written /\ p \in gen[g].operations
      BY <2>3, <2>4, <3>3 DEF Repeats
    <3>4. CASE o \in gen[g].operations /\ p \in written
      BY <2>3, <2>4, <3>4 DEF Repeats
    <3> QED BY <3>1, <3>2, <3>3, <3>4
  <2>6. IDsRecorded(g)'
    <3> HIDE DEF r, source, fresh, written
    <3> QED BY <1>1, <2>2, <2>3
  <2>7. IDsUnique(g)'
    <3> SUFFICES ASSUME gen'[g].issues = {},
                        NEW o \in gen[g].operations \cup written,
                        NEW p \in gen[g].operations \cup written,
                        o.id = p.id, o.id # Blank
                 PROVE  o = p
      BY <2>2
    <3>1. gen[g].issues = {} /\ Collisions(fresh, id, gen[g].ids) = {}
      <4>1. \A m \in Collisions(fresh, id, gen[g].ids) :
                <<"operationId", id[m]>> \in RowIssues(r, source, gen[g].operations, gen[g].ids)
        BY DEF RowIssues
      <4> QED BY <2>2, <4>1
    <3>2. \A m \in fresh : id[m] # Blank =>
              id[m] \notin gen[g].ids /\ \A l \in fresh \ {m} : id[l] # id[m]
      <4> HIDE DEF fresh, id
      <4> QED BY <3>1 DEF Collisions
    <3>3. \A m \in fresh : id[m] = OperationID(r, m, source)
      OBVIOUS
    <3> HIDE DEF r, source, fresh, written, id
    <3>4. CASE o \in gen[g].operations /\ p \in gen[g].operations
      BY <1>1, <3>1, <3>4
    <3>5. CASE o \in written /\ p \in written
      BY <2>3, <3>2, <3>3, <3>5
    <3>6. CASE o \in written /\ p \in gen[g].operations
      BY <1>1, <2>3, <3>2, <3>3, <3>6
    <3>7. CASE o \in gen[g].operations /\ p \in written
      BY <1>1, <2>3, <3>2, <3>3, <3>7
    <3> QED BY <3>4, <3>5, <3>6, <3>7
  <2> HIDE DEF PathsUnique, IDsRecorded, IDsUnique
  <2> QED BY <2>1, <2>5, <2>6, <2>7
<1>6. CASE Closed(g)
  <2>1. /\ gen'[g].operations = gen[g].operations
        /\ gen'[g].todo = {} /\ gen'[g].next > Len(input.table)
        /\ gen'[g].issues = {} => gen[g].issues = {}
        /\ gen[g].ids \subseteq gen'[g].ids
    BY <1>6 DEF Closed, Keeps
  <2>2. WebhooksApart(g)'
    <3> SUFFICES ASSUME gen'[g].issues = {},
                        NEW o \in gen[g].operations, NEW w \in DOMAIN input.webhooks,
                        o.id = input.webhooks[w], o.id # Blank
                 PROVE  FALSE
      BY <1>0, <2>1
    <3>1. Collisions(DOMAIN input.webhooks, input.webhooks, gen[g].ids) = {}
      BY <1>6 DEF Closed
    <3>2. input.webhooks[w] \notin gen[g].ids
      BY <3>1 DEF Collisions
    <3> QED BY <1>1, <3>2
  <2> QED BY <1>0, <1>1, <2>1, <2>2
<1> QED BY <1>2, <1>3, <1>4, <1>5, <1>6, StepCases DEF UniqueInv

(***************************************************************************)
(* No method and path is described twice, and the document of a generation*)
(* that succeeds gives no operationId twice, webhooks included.           *)
(***************************************************************************)
THEOREM OperationsUnique == GeneratorSpec => []OperationsAreUnique
<1>1. GeneratorInit => UniqueInv
  BY TypeInit DEF GeneratorInit, UniqueInv, PathsUnique, IDsRecorded, IDsUnique,
                  WebhooksApart, Ended
<1>2. UniqueInv /\ [GeneratorNext]_vars => UniqueInv'
  BY TypeStep, UniqueStep DEF UniqueInv
<1>3. UniqueInv => OperationsAreUnique
  BY DEF UniqueInv, PathsUnique, IDsUnique, WebhooksApart, OperationsAreUnique, Succeeded
<1> QED BY <1>1, <1>2, <1>3, PTL DEF GeneratorSpec

-----------------------------------------------------------------------------
(* The bindings a generation without issues arrives at do not depend on the*)
(* order of the map: a row without a draft is bound to the one draft it is *)
(* a candidate of.                                                         *)

\* Nothing is described before every draft is bound.
BindingFirst(g) ==
    gen[g].todo # {} => gen[g].next = 1 /\ gen[g].operations = {} /\ ~gen[g].finished

\* A row is bound to a draft that may document it.
Founded(g) ==
    \A r \in Listed : gen[g].bindings[r] # Unbound =>
        /\ gen[g].bindings[r] \in Listed
        /\ gen[g].bindings[r] = r \/ r \in Candidates(gen[g].bindings[r])

\* Without issues a draft has every row it may document.
Settled(g) ==
    gen[g].issues = {} =>
        \A s \in (Documented \cap Listed) \ gen[g].todo :
            \A r \in Candidates(s) \ Documented : gen[g].bindings[r] = s

BindingInv ==
    /\ OwnInv
    /\ \A g \in Generations : BindingFirst(g) /\ Founded(g) /\ Settled(g) /\ Ended(g)

LEMMA BindingStep ==
    ASSUME BindingInv, [GeneratorNext]_vars, NEW g \in Generations
    PROVE  (BindingFirst(g) /\ Founded(g) /\ Settled(g) /\ Ended(g))'
<1>0. TypeInv /\ input' = input
  BY StepCases DEF BindingInv, OwnInv
<1>1. BindingFirst(g) /\ Founded(g) /\ Settled(g) /\ Ended(g)
  BY DEF BindingInv
<1>2. /\ Listed' = Listed /\ Documented' = Documented
      /\ \A s : Candidates(s)' = Candidates(s)
  BY <1>0 DEF Listed, Documented, Candidates, Covered
<1>3. gen[g] \in Progress /\ Unbound \notin Documented
  BY <1>0, InputTyped, GeneratorAssumption DEF TypeInv, GeneratorTypeOK
<1> USE DEF BindingFirst, Founded, Settled, Ended
<1>4. CASE gen'[g] = gen[g]
  BY <1>0, <1>1, <1>2, <1>4
<1>5. CASE Lost(g)
  <2>1. BindingFirst(g)' /\ Ended(g)' /\ gen'[g].issues # {}
          /\ gen'[g].bindings = gen[g].bindings
    BY <1>1, <1>5 DEF Lost, Keeps
  <2> QED BY <1>1, <1>2, <2>1
<1>6. CASE Bound(g)
  <2>1. PICK s \in gen[g].todo \cap Listed :
            /\ gen'[g].todo = gen[g].todo \ {s}
            /\ gen'[g].bindings = BindingsAfter(s, gen[g].bindings)
            /\ gen[g].issues \subseteq gen'[g].issues
            /\ gen'[g].issues = {} => Taken(s, gen[g].bindings) = {}
            /\ Keeps(g, {"next", "operations", "ids", "finished"})
    BY <1>6 DEF Bound
  <2>2. s \in Documented /\ s # Unbound
    BY <1>3 DEF Progress
  <2>3. BindingFirst(g)' /\ Ended(g)'
    BY <1>1, <2>1 DEF Keeps
  <2>4. Founded(g)'
    <3> SUFFICES ASSUME NEW r \in Listed, gen'[g].bindings[r] # Unbound
                 PROVE  /\ gen'[g].bindings[r] \in Listed
                        /\ gen'[g].bindings[r] = r \/ r \in Candidates(gen'[g].bindings[r])
      BY <1>2
    <3>1. gen'[g].bindings[r] = s \/ gen'[g].bindings[r] = gen[g].bindings[r]
      BY <2>1 DEF BindingsAfter
    <3>2. CASE gen'[g].bindings[r] = gen[g].bindings[r]
      BY <1>1, <3>2
    <3>3. CASE gen'[g].bindings[r] = s /\ gen'[g].bindings[r] # gen[g].bindings[r]
      <4>1. r = s \/ r \in Candidates(s)
        BY <2>1, <3>3 DEF BindingsAfter
      <4> QED BY <3>3, <4>1
    <3> QED BY <3>1, <3>2, <3>3
  <2>5. Settled(g)'
    <3> SUFFICES ASSUME gen'[g].issues = {},
                        NEW t \in (Documented \cap Listed) \ gen'[g].todo,
                        NEW r \in Candidates(t) \ Documented
                 PROVE  gen'[g].bindings[r] = t
      BY <1>2
    <3>1. gen[g].issues = {} /\ Taken(s, gen[g].bindings) = {} /\ r \in Listed /\ r # s
      BY <2>1, <2>2 DEF Candidates
    <3>2. CASE t = s
      BY <2>1, <3>1, <3>2 DEF BindingsAfter
    <3>3. CASE t # s
      <4>1. gen[g].bindings[r] = t /\ t # Unbound
        BY <1>1, <1>3, <2>1, <3>1, <3>3
      <4>2. r \notin Candidates(s)
        BY <3>1, <3>3, <4>1 DEF Taken
      <4> QED BY <2>1, <3>1, <4>1, <4>2 DEF BindingsAfter
    <3> QED BY <3>2, <3>3
  <2> QED BY <2>3, <2>4, <2>5
<1>7. CASE Passed(g) \/ Described(g)
  <2>1. /\ gen[g].todo = {} /\ gen'[g].todo = {} /\ gen'[g].bindings = gen[g].bindings
        /\ gen'[g].issues = {} => gen[g].issues = {}
        /\ ~gen[g].finished /\ gen'[g].finished = gen[g].finished
    <3>1. AtRow(g) /\ Keeps(g, {"todo", "bindings", "finished"})
            /\ gen[g].issues \subseteq gen'[g].issues
      BY <1>7 DEF Passed, Described, Keeps
    <3>2. input.table \in Seq(Rows) /\ gen[g].next \in 1 .. (Len(input.table) + 1)
      BY <1>0, <1>3, InputTyped DEF TypeInv, Progress
    <3> QED BY <1>1, <3>1, <3>2 DEF AtRow, Keeps
  <2> QED BY <1>1, <1>2, <2>1
<1>8. CASE Closed(g)
  <2>1. /\ gen'[g].todo = {} /\ gen[g].todo = {} /\ gen'[g].bindings = gen[g].bindings
        /\ gen'[g].issues = {} => gen[g].issues = {}
        /\ gen'[g].next > Len(input.table)
    BY <1>8 DEF Closed, Keeps
  <2> QED BY <1>0, <1>1, <1>2, <2>1
<1> QED BY <1>0, <1>4, <1>5, <1>6, <1>7, <1>8, StepCases

LEMMA BindingCorrect == GeneratorSpec => []BindingInv
<1>1. GeneratorInit => BindingInv
  <2> SUFFICES ASSUME GeneratorInit PROVE BindingInv
    OBVIOUS
  <2>1. OwnInv
    BY TypeInit DEF GeneratorInit, OwnInv, OwnDraftsWin, Documented
  <2>2. ASSUME NEW g \in Generations
        PROVE  BindingFirst(g) /\ Founded(g) /\ Settled(g) /\ Ended(g)
    BY DEF GeneratorInit, BindingFirst, Founded, Settled, Ended, Documented
  <2> QED BY <2>1, <2>2 DEF BindingInv
<1>2. BindingInv /\ [GeneratorNext]_vars => BindingInv'
  BY TypeStep, OwnStep, BindingStep DEF BindingInv, OwnInv
<1> QED BY <1>1, <1>2, PTL DEF GeneratorSpec

\* The author of a row is what it is bound to.
LEMMA BindingsAreAuthors ==
    ASSUME BindingInv, NEW g \in Generations, NEW r \in Listed,
           gen[g].todo = {}, gen[g].issues = {}
    PROVE  Authors(r) = {gen[g].bindings[r]} \ {Unbound}
<1>1. /\ Founded(g) /\ Settled(g) /\ Unbound \notin Documented
      /\ gen[g].bindings[r] \in Documented \cup {Unbound}
  BY InputTyped, GeneratorAssumption
     DEF BindingInv, OwnInv, TypeInv, GeneratorTypeOK, Progress
<1>2. CASE r \in Documented
  <2>1. gen[g].bindings[r] = r
    BY <1>2 DEF BindingInv, OwnInv, OwnDraftsWin
  <2> QED BY <1>1, <1>2, <2>1 DEF Authors
<1>3. CASE r \notin Documented
  <2>1. \A s \in Documented \cap Listed : s \in Authors(r) <=> r \in Candidates(s)
    BY <1>3 DEF Authors, Candidates, Covered
  <2>2. \A s \in Authors(r) : gen[g].bindings[r] = s /\ s # Unbound
    BY <1>1, <1>3, <2>1 DEF Settled, Authors
  <2>3. gen[g].bindings[r] # Unbound => gen[g].bindings[r] \in Authors(r)
    BY <1>1, <1>3, <2>1 DEF Founded
  <2> QED BY <2>2, <2>3
<1> QED BY <1>2, <1>3

-----------------------------------------------------------------------------
(* The operations are those of the rows that were passed, each described by*)
(* what its row is bound to.                                               *)

\* What the document is to say of a row under these bindings.
OperationsOf(r, bindings) ==
    {Operation(r, m, bindings[r]) : m \in {n \in Wanted(r, bindings[r]) :
                                               ~Skipped(r, bindings[r])}}

Sourced(g) ==
    \A o \in gen[g].operations : o.row \in Listed /\ o \in OperationsOf(o.row, gen[g].bindings)

Complete(g) ==
    gen[g].issues = {} =>
        \A i \in 1 .. (gen[g].next - 1) :
            OperationsOf(input.table[i], gen[g].bindings) \subseteq gen[g].operations

DocumentInv == BindingInv /\ \A g \in Generations : Sourced(g) /\ Complete(g)

\* A row all of whose methods are described without issue is written entirely.
LEMMA NoIssuesNoGaps ==
    ASSUME NEW r, NEW source, NEW operations, NEW ids,
           RowIssues(r, source, operations, ids) = {}
    PROVE  Wanted(r, source) \subseteq Placed(Fresh(r, source, operations))
<1> SUFFICES ASSUME NEW m \in Wanted(r, source)
             PROVE  m \in Fresh(r, source, operations) /\ m \in Supported
  BY DEF Placed
<1>1. MethodIssues(r, source) = {}
  BY DEF RowIssues
<1>2. m \in Fresh(r, source, operations)
  <2>1. \A n \in Wanted(r, source) \ Fresh(r, source, operations) :
            <<"refused", r, n>> \in RowIssues(r, source, operations, ids)
    BY DEF RowIssues
  <2> QED BY <2>1
<1>3. CASE IsAny(r)
  <2>1. \A n \in Chosen(source) \ Supported : <<"unsupported", r, n>> \in MethodIssues(r, source)
    BY <1>3 DEF MethodIssues
  <2> QED BY <1>1, <1>2, <1>3, <2>1 DEF Wanted, MethodsOf
<1>4. CASE ~IsAny(r)
  <2>1. r.method \notin Supported =>
            <<"unsupported", r, r.method>> \in MethodIssues(r, source)
    BY <1>4 DEF MethodIssues
  <2> QED BY <1>1, <1>2, <1>4, <2>1 DEF Wanted, MethodsOf
<1> QED BY <1>3, <1>4

LEMMA DocumentStep ==
    ASSUME DocumentInv, [GeneratorNext]_vars, NEW g \in Generations
    PROVE  Sourced(g)' /\ Complete(g)'
<1>0. TypeInv /\ input' = input /\ BindingFirst(g)
  BY StepCases DEF DocumentInv, BindingInv, OwnInv
<1>1. Sourced(g) /\ Complete(g)
  BY DEF DocumentInv
<1>2. /\ Listed' = Listed
      /\ \A r, b : OperationsOf(r, b)' = OperationsOf(r, b)
  BY <1>0 DEF Listed, OperationsOf, Operation, OperationID, GivenID, AutomaticID, SeveralMethods,
              Linked, Covered, DraftOf, Wanted, Passes, MethodsOf, MethodIssues, Chosen,
              Skipped, Hidden, Excluded, Listed
<1>3. gen[g] \in Progress /\ gen[g].next \in Nat
  BY <1>0, InputTyped DEF TypeInv, GeneratorTypeOK, Progress
<1> USE DEF Sourced, Complete
<1>4. CASE gen'[g] = gen[g]
  BY <1>0, <1>1, <1>2, <1>4
<1>5. CASE Lost(g) \/ Bound(g)
  <2>1. gen'[g].operations = {} /\ gen'[g].next = 1
    BY <1>0, <1>5 DEF Lost, Bound, Keeps, BindingFirst
  <2> QED BY <2>1
<1>6. CASE Passed(g)
  <2>1. /\ gen'[g].next = gen[g].next + 1
        /\ gen'[g].operations = gen[g].operations /\ gen'[g].bindings = gen[g].bindings
        /\ gen'[g].issues = gen[g].issues
        /\ OperationsOf(input.table[gen[g].next], gen[g].bindings) = {}
    BY <1>6 DEF Passed, Keeps, OperationsOf, Current, Author
  <2>2. \A i \in 1 .. (gen'[g].next - 1) : i \in 1 .. (gen[g].next - 1) \/ i = gen[g].next
    BY <1>3, <2>1
  <2> QED BY <1>0, <1>1, <1>2, <2>1, <2>2
<1>7. CASE Described(g)
  <2> DEFINE r       == Current(g)
             source  == Author(g)
             fresh   == Fresh(r, source, gen[g].operations)
             written == {Operation(r, m, source) : m \in Placed(fresh)}
  <2>0. Keeps(g, {"todo", "bindings", "finished"})
    BY <1>7 DEF Described
  <2>b. gen'[g].bindings = gen[g].bindings
    BY <2>0 DEF Keeps
  <2>1. /\ AtRow(g)
        /\ gen'[g].next = gen[g].next + 1
        /\ gen'[g].operations = gen[g].operations \cup written
        /\ gen'[g].bindings = gen[g].bindings
        /\ gen'[g].issues = gen[g].issues \cup RowIssues(r, source, gen[g].operations, gen[g].ids)
        /\ ~Skipped(r, source)
    BY <1>7, <2>b DEF Described
  <2>2. r = input.table[gen[g].next] /\ r \in Listed /\ source = gen[g].bindings[r]
    BY <1>0, <2>1, CurrentTyped DEF Current, Author
  <2>3. OperationsOf(r, gen[g].bindings) = {Operation(r, m, source) : m \in Wanted(r, source)}
    BY <2>1, <2>2 DEF OperationsOf
  <2>4. \A o \in written : o.row = r /\ o \in OperationsOf(r, gen[g].bindings)
    BY <2>3 DEF Placed, Fresh, Operation
  <2>5. gen'[g].issues = {} => OperationsOf(r, gen[g].bindings) \subseteq written
    <3> SUFFICES ASSUME gen'[g].issues = {}
                 PROVE  Wanted(r, source) \subseteq Placed(fresh)
      BY <2>3
    <3>1. RowIssues(r, source, gen[g].operations, gen[g].ids) = {}
      BY <2>1
    <3> HIDE DEF r, source
    <3> QED BY <3>1, NoIssuesNoGaps
  <2>6. \A i \in 1 .. (gen'[g].next - 1) : i \in 1 .. (gen[g].next - 1) \/ i = gen[g].next
    BY <1>3, <2>1
  <2> HIDE DEF r, source, fresh, written
  <2>7. Sourced(g)'
    BY <1>1, <1>2, <2>1, <2>2, <2>4
  <2>8. Complete(g)'
    <3> SUFFICES ASSUME gen'[g].issues = {}, NEW i \in 1 .. (gen'[g].next - 1)
                 PROVE  OperationsOf(input.table[i], gen[g].bindings) \subseteq gen'[g].operations
      BY <1>0, <1>2, <2>1
    <3>1. gen[g].issues = {}
      BY <2>1
    <3> QED BY <1>1, <2>1, <2>2, <2>5, <2>6, <3>1
  <2> HIDE DEF Sourced, Complete
  <2> QED BY <2>7, <2>8
<1>8. CASE Closed(g)
  <2>1. /\ gen'[g].next = gen[g].next
        /\ gen'[g].operations = gen[g].operations /\ gen'[g].bindings = gen[g].bindings
        /\ gen'[g].issues = {} => gen[g].issues = {}
    BY <1>8 DEF Closed, Keeps
  <2> QED BY <1>0, <1>1, <1>2, <2>1
<1> QED BY <1>0, <1>4, <1>5, <1>6, <1>7, <1>8, StepCases

LEMMA DocumentCorrect == GeneratorSpec => []DocumentInv
<1>1. GeneratorInit => \A g \in Generations : Sourced(g) /\ Complete(g)
  BY DEF GeneratorInit, Sourced, Complete
<1>2. DocumentInv /\ [GeneratorNext]_vars => (\A g \in Generations : Sourced(g) /\ Complete(g))'
  BY DocumentStep
<1>3. BindingInv /\ (\A g \in Generations : Sourced(g) /\ Complete(g)) <=> DocumentInv
  BY DEF DocumentInv
<1> QED BY <1>1, <1>2, <1>3, BindingCorrect, PTL DEF GeneratorSpec

\* The document of a generation that succeeded.
LEMMA DocumentOfBindings ==
    ASSUME DocumentInv, NEW g \in Generations, Succeeded(g)
    PROVE  gen[g].operations = UNION {OperationsOf(r, gen[g].bindings) : r \in Listed}
<1>1. /\ Sourced(g) /\ Complete(g) /\ Ended(g) /\ gen[g] \in Progress
      /\ input.table \in Seq(Rows)
  BY InputTyped DEF DocumentInv, BindingInv, OwnInv, TypeInv, GeneratorTypeOK
<1>2. gen[g].next = Len(input.table) + 1
  BY <1>1 DEF Succeeded, Ended, Progress
<1>3. \A r \in Listed : OperationsOf(r, gen[g].bindings) \subseteq gen[g].operations
  <2> SUFFICES ASSUME NEW i \in DOMAIN input.table
               PROVE  OperationsOf(input.table[i], gen[g].bindings) \subseteq gen[g].operations
    BY DEF Listed
  <2>1. i \in 1 .. (gen[g].next - 1)
    BY <1>1, <1>2
  <2> QED BY <1>1, <2>1 DEF Complete, Succeeded
<1> QED BY <1>1, <1>3 DEF Sourced

(***************************************************************************)
(* A generation that succeeds writes the document its input determines,   *)
(* in whatever order its drafts were bound.                                *)
(***************************************************************************)
THEOREM DocumentDetermined == GeneratorSpec => []DocumentIsDetermined
<1>1. DocumentInv => DocumentIsDetermined
  <2> SUFFICES ASSUME DocumentInv, NEW g \in Generations, Succeeded(g)
               PROVE  LET author == [r \in Listed |-> IF Authors(r) = {} THEN Unbound
                                                      ELSE CHOOSE s \in Authors(r) : TRUE]
                      IN  /\ \A r \in Listed : \A s, t \in Authors(r) : s = t
                          /\ gen[g].operations =
                                UNION {{Operation(r, m, author[r]) : m \in Wanted(r, author[r])} :
                                          r \in {q \in Listed : ~Skipped(q, author[q])}}
    BY DEF DocumentIsDetermined
  <2> DEFINE author == [r \in Listed |-> IF Authors(r) = {} THEN Unbound
                                         ELSE CHOOSE s \in Authors(r) : TRUE]
  <2>1. \A r \in Listed : Authors(r) = {gen[g].bindings[r]} \ {Unbound}
    <3>1. gen[g].todo = {} /\ gen[g].issues = {} /\ BindingInv
      BY DEF Succeeded, DocumentInv, BindingInv, Ended
    <3> QED BY <3>1, BindingsAreAuthors
  <2>2. \A r \in Listed : author[r] = gen[g].bindings[r]
    <3> SUFFICES ASSUME NEW r \in Listed
                 PROVE  author[r] = gen[g].bindings[r]
      OBVIOUS
    <3>1. CASE gen[g].bindings[r] = Unbound
      BY <2>1, <3>1
    <3>2. CASE gen[g].bindings[r] # Unbound
      BY <2>1, <3>2
    <3> QED BY <3>1, <3>2
  <2> HIDE DEF author
  <2>3. gen[g].operations = UNION {OperationsOf(r, gen[g].bindings) : r \in Listed}
    BY DocumentOfBindings
  <2>4. \A r \in Listed : OperationsOf(r, gen[g].bindings) =
            IF Skipped(r, author[r]) THEN {}
            ELSE {Operation(r, m, author[r]) : m \in Wanted(r, author[r])}
    BY <2>2 DEF OperationsOf
  <2>5. gen[g].operations =
            UNION {{Operation(r, m, author[r]) : m \in Wanted(r, author[r])} :
                      r \in {q \in Listed : ~Skipped(q, author[q])}}
    <3> DEFINE Of(r) == {Operation(r, m, author[r]) : m \in Wanted(r, author[r])}
    <3>1. ASSUME NEW o
          PROVE  (\E r \in Listed : o \in OperationsOf(r, gen[g].bindings))
                    <=> (\E r \in Listed : ~Skipped(r, author[r]) /\ o \in Of(r))
      <4>1. \A r \in Listed : o \in OperationsOf(r, gen[g].bindings)
                                <=> ~Skipped(r, author[r]) /\ o \in Of(r)
        BY <2>4
      <4> QED BY <4>1
    <3> HIDE DEF Of
    <3>2. gen[g].operations = UNION {Of(r) : r \in {q \in Listed : ~Skipped(q, author[q])}}
      BY <2>3, <3>1
    <3> QED BY <3>2 DEF Of
  <2> QED BY <2>1, <2>5 DEF author
<1> QED BY <1>1, DocumentCorrect, PTL

(***************************************************************************)
(* A hidden draft keeps its row out of every document, and the other rows *)
(* of its Match that have no draft of their own.                           *)
(***************************************************************************)
THEOREM HiddenStaysOut == GeneratorSpec => []HiddenRoutesStayOut
<1>1. DocumentInv => HiddenRoutesStayOut
  <2> SUFFICES ASSUME DocumentInv, NEW g \in Generations, Succeeded(g),
                      NEW s \in Documented \cap Listed, input.drafts[s].hidden,
                      NEW o \in gen[g].operations
               PROVE  /\ o.row # s
                      /\ o.row.path = s.path /\ o.row.method \in Methods(s) /\ ~IsAny(s)
                            => o.row \in Documented
    BY DEF HiddenRoutesStayOut
  <2>1. /\ o.row \in Listed
        /\ ~Skipped(o.row, gen[g].bindings[o.row])
    BY DEF DocumentInv, Sourced, OperationsOf
  <2>2. gen[g].bindings[o.row] # s
    <3>1. s # Unbound
      BY InputTyped, GeneratorAssumption DEF DocumentInv, BindingInv, OwnInv, TypeInv
    <3> QED BY <2>1, <3>1 DEF Skipped, Hidden, DraftOf
  <2>3. gen[g].todo = {} /\ gen[g].issues = {} /\ Settled(g) /\ OwnDraftsWin
    BY DEF Succeeded, DocumentInv, BindingInv, OwnInv, Ended
  <2>4. o.row # s
    BY <2>2, <2>3 DEF OwnDraftsWin
  <2>5. o.row.path = s.path /\ o.row.method \in Methods(s) /\ ~IsAny(s) => o.row \in Candidates(s)
    BY <2>1 DEF Candidates, Covered
  <2> QED BY <2>2, <2>3, <2>4, <2>5 DEF Settled
<1> QED BY <1>1, DocumentCorrect, PTL

(***************************************************************************)
(* Every operation of a Match of several methods that its draft does not  *)
(* name has its name qualified, for every table of whole Matches.         *)
(***************************************************************************)
THEOREM IDsQualified == GeneratorSpec => []AutomaticIDsAreQualified
<1>1. DocumentInv => AutomaticIDsAreQualified
  <2> SUFFICES ASSUME DocumentInv, NEW g \in Generations, NEW o \in gen[g].operations,
                      o.row.name # Blank, Cardinality(o.row.match) > 1,
                      GivenID(o.method, o.source) = Blank,
                      IF o.source = Unbound THEN ~Parted(o.row)
                      ELSE o.source.first /\ o.source.match = o.row.match
               PROVE  o.id = Qualified(o.row.name, o.method)
    BY DEF AutomaticIDsAreQualified
  <2> DEFINE r == o.row
             source == gen[g].bindings[r]
  <2>1. /\ r \in Listed /\ r \in Rows
        /\ source \in Documented \cup {Unbound}
        /\ o.source = source
        /\ o.method \in Wanted(r, source)
        /\ o.id = OperationID(r, o.method, source)
    <3>1. r \in Listed /\ o \in OperationsOf(r, gen[g].bindings)
      BY DEF DocumentInv, Sourced
    <3>2. PICK m \in Wanted(r, source) : o = Operation(r, m, source)
      BY <3>1 DEF OperationsOf
    <3>3. o.source = source /\ o.method = m /\ o.id = OperationID(r, m, source)
      BY <3>2 DEF Operation
    <3>4. source \in Documented \cup {Unbound} /\ Listed \subseteq Rows
      BY <3>1, InputTyped DEF DocumentInv, BindingInv, OwnInv, TypeInv, GeneratorTypeOK, Progress
    <3> QED BY <3>1, <3>3, <3>4
  <2> HIDE DEF r, source
  <2>2. r.method \in r.match /\ ~IsAny(r)
    <3>1. r.method \in r.match /\ (AnyMethod \in r.match => r.match = {AnyMethod})
      BY <2>1, MatchAssumption
    <3>2. Cardinality({AnyMethod}) = 1
      BY FS_Singleton
    <3>3. r.match # {AnyMethod}
      BY <3>2 DEF r
    <3> QED BY <3>1, <3>3 DEF IsAny
  <2>3. SeveralMethods(r, source)
    <3>1. CASE source = Unbound
      <4>1. PICK s \in Listed : s.first /\ s.path = r.path /\ s.match = r.match /\ s.name = r.name
        <5>1. input \in Inputs
          BY DEF DocumentInv, BindingInv, OwnInv, TypeInv
        <5>2. PICK k \in DOMAIN input.table : r = input.table[k]
          BY <2>1 DEF Listed
        <5> QED BY <5>1, <5>2, MatchAssumption DEF Listed
      <4>2. s.domain = r.domain
        BY <2>1, <3>1, <4>1 DEF Parted, r
      <4> QED BY <2>2, <3>1, <4>1, <4>2 DEF SeveralMethods, Linked, Methods, r
    <3>2. CASE source # Unbound
      <4>1. source.first /\ source.match = r.match
        BY <2>1, <3>2 DEF r
      <4>2. ~IsAny(source)
        <5>1. source = r \/ r \in Candidates(source)
          BY <2>1, <3>2 DEF DocumentInv, BindingInv, Founded, source
        <5> QED BY <2>2, <5>1 DEF Candidates
      <4>3. Covered(source) = r.match
        BY <4>1, <4>2 DEF Covered, Methods
      <4> QED BY <3>2, <4>3 DEF SeveralMethods, r
    <3> QED BY <3>1, <3>2
  <2> QED BY <2>1, <2>3 DEF OperationID, AutomaticID, r
<1> QED BY <1>1, DocumentCorrect, PTL

-----------------------------------------------------------------------------
(* Agreement: a generation that succeeds shows that its input is agreeable,*)
(* which is said of the input alone, and on an agreeable input no order of *)
(* the map gives an issue.                                                 *)

\* The methods a row is described by under these bindings, and their identifiers.
Describes(r, bindings) == {m \in Wanted(r, bindings[r]) : ~Skipped(r, bindings[r])}

IDUnder(r, m, bindings) == OperationID(r, m, bindings[r])

\* The row at a position has no issue of its own and none with the rows before it.
Harmless(k, bindings) ==
    LET r == input.table[k]
    IN  /\ Skipped(r, bindings[r]) \/ MethodIssues(r, bindings[r]) = {}
        /\ Describes(r, bindings) # {} =>
              r.path \notin Unrepresentable /\ OperationIsValid(r, DraftOf(bindings[r]))
        /\ \A m, n \in Describes(r, bindings) :
              m # n /\ IDUnder(r, m, bindings) = IDUnder(r, n, bindings)
                 => IDUnder(r, m, bindings) = Blank
        /\ \A l \in 1 .. (k - 1) :
              \A m \in Describes(input.table[l], bindings), n \in Describes(r, bindings) :
                 /\ m = n => input.table[l].path # r.path
                 /\ IDUnder(input.table[l], m, bindings) = IDUnder(r, n, bindings)
                       => IDUnder(r, n, bindings) = Blank

HarmlessWebhooks(bindings) ==
    \A w \in DOMAIN input.webhooks : input.webhooks[w] # Blank =>
        /\ \A v \in DOMAIN input.webhooks \ {w} : input.webhooks[v] # input.webhooks[w]
        /\ \A k \in DOMAIN input.table : \A m \in Describes(input.table[k], bindings) :
              IDUnder(input.table[k], m, bindings) # input.webhooks[w]

\* The author of every row, by the input alone.
Authorship ==
    [r \in Listed |-> IF Authors(r) = {} THEN Unbound ELSE CHOOSE s \in Authors(r) : TRUE]

Agreeable ==
    /\ \A s \in Documented : s \in Listed /\ UndeclaredIDs(s) = {}
    /\ \A s, t \in Documented : s # t =>
          s \notin Candidates(t) /\ Candidates(s) \cap Candidates(t) = {}
    /\ \A k \in DOMAIN input.table : Harmless(k, Authorship)
    /\ HarmlessWebhooks(Authorship)

\* What the absence of issues has shown so far.
DraftsShown(g) ==
    gen[g].issues = {} => \A s \in Documented \ gen[g].todo :
        /\ s \in Listed /\ UndeclaredIDs(s) = {}
        /\ \A t \in Documented \ gen[g].todo :
              s # t => ~(s \in Candidates(t) /\ t \in Candidates(s))

RowsShown(g) ==
    gen[g].issues = {} => \A k \in 1 .. (gen[g].next - 1) :
        /\ Harmless(k, gen[g].bindings)
        /\ \A m \in Describes(input.table[k], gen[g].bindings) :
              IDUnder(input.table[k], m, gen[g].bindings) \in gen[g].ids

WebhooksShown(g) ==
    gen[g].finished /\ gen[g].issues = {} => HarmlessWebhooks(gen[g].bindings)

\* What was gathered comes from the rows passed.
Traced(g) ==
    /\ \A o \in gen[g].operations : \E k \in 1 .. (gen[g].next - 1) :
          o.row = input.table[k] /\ o.method \in Describes(input.table[k], gen[g].bindings)
    /\ ~gen[g].finished =>
          \A i \in gen[g].ids : \E k \in 1 .. (gen[g].next - 1) :
             \E m \in Describes(input.table[k], gen[g].bindings) :
                i = IDUnder(input.table[k], m, gen[g].bindings)

ShownInv ==
    /\ DocumentInv
    /\ \A g \in Generations : DraftsShown(g) /\ RowsShown(g) /\ WebhooksShown(g) /\ Traced(g)

LEMMA CollisionsShown ==
    ASSUME NEW keys, NEW id, NEW ids
    PROVE  Collisions(keys, id, ids) = {} <=>
              \A k \in keys : id[k] # Blank =>
                 id[k] \notin ids /\ \A l \in keys \ {k} : id[l] # id[k]
BY DEF Collisions

(***************************************************************************)
(* A row that is not skipped adds no issue exactly if it is harmless,     *)
(* given that what was gathered is that of the rows before it.            *)
(***************************************************************************)
LEMMA HarmlessWithoutIssues ==
    ASSUME ShownInv, NEW g \in Generations, AtRow(g), ~Skipped(Current(g), Author(g)),
           gen[g].issues = {}
    PROVE  /\ Harmless(gen[g].next, gen[g].bindings) <=>
                 RowIssues(Current(g), Author(g), gen[g].operations, gen[g].ids) = {}
           /\ RowIssues(Current(g), Author(g), gen[g].operations, gen[g].ids) = {} =>
                 Describes(Current(g), gen[g].bindings)
                    = Fresh(Current(g), Author(g), gen[g].operations)
<1> DEFINE r      == Current(g)
           b      == gen[g].bindings
           k      == gen[g].next
           source == Author(g)
           fresh  == Fresh(r, source, gen[g].operations)
           id     == [m \in fresh |-> OperationID(r, m, source)]
           Issued == RowIssues(r, source, gen[g].operations, gen[g].ids)
<1>0. /\ r = input.table[k] /\ source = b[r] /\ k \in Nat /\ ~gen[g].finished
      /\ RowsShown(g) /\ Traced(g) /\ Complete(g) /\ ~Skipped(r, b[r])
  <2>1. TypeInv /\ Ended(g) /\ RowsShown(g) /\ Traced(g) /\ Complete(g)
    BY DEF ShownInv, DocumentInv, BindingInv, OwnInv
  <2>2. input.table \in Seq(Rows) /\ gen[g].next \in 1 .. (Len(input.table) + 1)
    BY <2>1, InputTyped DEF TypeInv, GeneratorTypeOK, Progress
  <2>3. k \in Nat
    BY <2>2
  <2>4. ~gen[g].finished
    BY <2>1, <2>2 DEF Ended, AtRow
  <2> QED BY <2>1, <2>3, <2>4 DEF Current, Author
<1>1. Describes(r, b) = Wanted(r, source) /\ fresh \subseteq Wanted(r, source)
  BY <1>0 DEF Describes, Fresh
<1>2. Issued = {} <=>
         /\ MethodIssues(r, source) = {}
         /\ Wanted(r, source) \subseteq fresh
         /\ Collisions(fresh, id, gen[g].ids) = {}
         /\ \A m \in fresh : OperationIsValid(r, DraftOf(source))
  <2>1. Issued = MethodIssues(r, source)
            \cup {<<"refused", r, m>> : m \in Wanted(r, source) \ fresh}
            \cup {<<"operationId", id[m]>> : m \in Collisions(fresh, id, gen[g].ids)}
            \cup {<<"invalid", r, m>> : m \in {n \in fresh : ~OperationIsValid(r, DraftOf(source))}}
    BY DEF RowIssues
  <2> HIDE DEF r, source, fresh, id, Issued
  <2> QED BY <2>1
<1>3. Collisions(fresh, id, gen[g].ids) = {} <=>
         \A m \in fresh : OperationID(r, m, source) # Blank =>
            /\ OperationID(r, m, source) \notin gen[g].ids
            /\ \A n \in fresh \ {m} : OperationID(r, n, source) # OperationID(r, m, source)
  <2>1. \A m \in fresh : id[m] = OperationID(r, m, source)
    OBVIOUS
  <2> HIDE DEF r, source, fresh, id
  <2>2. Collisions(fresh, id, gen[g].ids) = {} <=>
           \A m \in fresh : id[m] # Blank =>
              id[m] \notin gen[g].ids /\ \A n \in fresh \ {m} : id[n] # id[m]
    BY CollisionsShown
  <2> QED BY <2>1, <2>2
<1>4. Issued = {} => fresh = Wanted(r, source)
  BY <1>1, <1>2
<1> HIDE DEF r, b, k, source, fresh, id, Issued
<1>5. ASSUME Issued = {}
      PROVE  Harmless(k, b)
  <2>1. /\ MethodIssues(r, source) = {} /\ Describes(r, b) = fresh
        /\ \A m \in fresh : OperationIsValid(r, DraftOf(source))
        /\ \A m \in fresh : OperationID(r, m, source) # Blank =>
              /\ OperationID(r, m, source) \notin gen[g].ids
              /\ \A n \in fresh \ {m} : OperationID(r, n, source) # OperationID(r, m, source)
    BY <1>1, <1>2, <1>3, <1>4, <1>5
  <2>2. \A m \in fresh : r.path \notin Unrepresentable /\ ~Repeats(r, m, gen[g].operations)
    BY DEF Fresh, fresh
  <2>3. ASSUME NEW l \in 1 .. (k - 1), NEW m \in Describes(input.table[l], b), NEW n \in fresh
        PROVE  /\ m = n => input.table[l].path # r.path
               /\ IDUnder(input.table[l], m, b) = IDUnder(r, n, b) => IDUnder(r, n, b) = Blank
    <3>1. IDUnder(input.table[l], m, b) \in gen[g].ids
      BY <1>0, <2>3, Zenon DEF RowsShown, k, b
    <3>2. Operation(input.table[l], m, b[input.table[l]]) \in gen[g].operations
      <4>1. OperationsOf(input.table[l], b) \subseteq gen[g].operations
        BY <1>0, <2>3 DEF Complete, k, b
      <4> QED BY <2>3, <4>1 DEF OperationsOf, Describes
    <3>3. m = n => input.table[l].path # r.path
      BY <2>2, <3>2 DEF Repeats, Operation
    <3> QED BY <1>0, <2>1, <3>1, <3>3 DEF IDUnder
  <2> QED BY <1>0, <2>1, <2>2, <2>3 DEF Harmless, IDUnder
<1>6. ASSUME Harmless(k, b)
      PROVE  Issued = {}
  <2>1. /\ MethodIssues(r, source) = {}
        /\ Describes(r, b) # {} => r.path \notin Unrepresentable /\ OperationIsValid(r, DraftOf(source))
        /\ \A m, n \in Describes(r, b) : m # n /\ IDUnder(r, m, b) = IDUnder(r, n, b)
              => IDUnder(r, m, b) = Blank
    BY <1>0, <1>6 DEF Harmless
  <2>2. \A l \in 1 .. (k - 1) : \A m \in Describes(input.table[l], b), n \in Describes(r, b) :
            /\ m = n => input.table[l].path # r.path
            /\ IDUnder(input.table[l], m, b) = IDUnder(r, n, b) => IDUnder(r, n, b) = Blank
    BY <1>0, <1>6 DEF Harmless
  <2>3. ASSUME NEW m \in Describes(r, b)
        PROVE  ~Repeats(r, m, gen[g].operations)
    <3> SUFFICES ASSUME NEW o \in gen[g].operations, o.method = m, o.row.path = r.path
                 PROVE  FALSE
      BY DEF Repeats
    <3>1. PICK l \in 1 .. (k - 1) : o.row = input.table[l] /\ o.method \in Describes(input.table[l], b)
      BY <1>0 DEF Traced, k, b
    <3> QED BY <2>2, <2>3, <3>1
  <2>4. fresh = Wanted(r, source)
    BY <1>1, <2>1, <2>3 DEF Fresh, fresh
  <2>5. ASSUME NEW m \in fresh, OperationID(r, m, source) # Blank
        PROVE  /\ OperationID(r, m, source) \notin gen[g].ids
               /\ \A n \in fresh \ {m} : OperationID(r, n, source) # OperationID(r, m, source)
    <3>1. m \in Describes(r, b) /\ IDUnder(r, m, b) = OperationID(r, m, source)
      BY <1>0, <1>1, <2>4, <2>5 DEF IDUnder
    <3>2. ASSUME IDUnder(r, m, b) \in gen[g].ids PROVE FALSE
      <4>1. PICK l \in 1 .. (k - 1) : \E n \in Describes(input.table[l], b) :
                IDUnder(r, m, b) = IDUnder(input.table[l], n, b)
        BY <1>0, <3>2 DEF Traced, k, b
      <4> QED BY <2>2, <2>5, <3>1, <4>1
    <3>3. ASSUME NEW n \in fresh \ {m}
          PROVE  OperationID(r, n, source) # OperationID(r, m, source)
      <4>1. n \in Describes(r, b) /\ IDUnder(r, n, b) = OperationID(r, n, source)
        BY <1>0, <1>1, <2>4, <3>3 DEF IDUnder
      <4> QED BY <2>1, <2>5, <3>1, <3>3, <4>1
    <3> QED BY <3>1, <3>2, <3>3
  <2> QED BY <1>1, <1>2, <1>3, <2>1, <2>4, <2>5
<1> QED BY <1>1, <1>4, <1>5, <1>6 DEF r, b, k, source, fresh, Issued

\* What the loop reads of its input, operator by operator, is the same after a step
\* that leaves the input alone.
LEMMA SameInput ==
    ASSUME input' = input
    PROVE  /\ \A r, b : Describes(r, b)' = Describes(r, b)
           /\ \A r, m, b : IDUnder(r, m, b)' = IDUnder(r, m, b)
           /\ \A k, b : Harmless(k, b)' = Harmless(k, b)
           /\ \A b : HarmlessWebhooks(b)' = HarmlessWebhooks(b)
<1>1. Listed' = Listed /\ Documented' = Documented
  BY DEF Listed, Documented
<1>2. \A s : DraftOf(s)' = DraftOf(s)
  BY DEF DraftOf
<1>3. \A s : Chosen(s)' = Chosen(s) /\ Covered(s)' = Covered(s)
  BY <1>2 DEF Chosen, Covered
<1>4. \A r, s : Skipped(r, s)' = Skipped(r, s)
  BY <1>2 DEF Skipped, Hidden, Excluded
<1>5. \A r, s : MethodIssues(r, s)' = MethodIssues(r, s)
  BY <1>3 DEF MethodIssues
<1>6. \A r, s : MethodsOf(r, s)' = MethodsOf(r, s)
  BY <1>3, <1>5 DEF MethodsOf
<1>7. \A r, m : Passes(r, m)' = Passes(r, m)
  BY DEF Passes
<1>8. \A r, s : Wanted(r, s)' = Wanted(r, s)
  BY <1>6, <1>7 DEF Wanted
<1>9. \A r, s : SeveralMethods(r, s)' = SeveralMethods(r, s)
  <2>1. \A r : Linked(r)' = Linked(r)
    BY <1>1 DEF Linked
  <2> QED BY <1>3, <2>1 DEF SeveralMethods
<1>10. \A r, m, s : OperationID(r, m, s)' = OperationID(r, m, s)
  <2>1. \A m, s : GivenID(m, s)' = GivenID(m, s)
    BY <1>2 DEF GivenID
  <2>2. \A r, m, s : AutomaticID(r, m, s)' = AutomaticID(r, m, s)
    BY <1>9 DEF AutomaticID
  <2> QED BY <2>1, <2>2 DEF OperationID
<1>11. \A r, b : Describes(r, b)' = Describes(r, b)
  BY <1>4, <1>8 DEF Describes
<1>12. \A r, m, b : IDUnder(r, m, b)' = IDUnder(r, m, b)
  BY <1>10 DEF IDUnder
<1>13. \A k, b : Harmless(k, b)' = Harmless(k, b)
  <2> TAKE k, b
  <2> DEFINE r        == input.table[k]
             Possible == Skipped(r, b[r]) \/ MethodIssues(r, b[r]) = {}
             Placeable == Describes(r, b) # {} =>
                             r.path \notin Unrepresentable /\ OperationIsValid(r, DraftOf(b[r]))
             Distinct == \A m, n \in Describes(r, b) :
                            m # n /\ IDUnder(r, m, b) = IDUnder(r, n, b) => IDUnder(r, m, b) = Blank
             Apart    == \A l \in 1 .. (k - 1) :
                            \A m \in Describes(input.table[l], b), n \in Describes(r, b) :
                               /\ m = n => input.table[l].path # r.path
                               /\ IDUnder(input.table[l], m, b) = IDUnder(r, n, b)
                                     => IDUnder(r, n, b) = Blank
  <2>1. Harmless(k, b) = (Possible /\ Placeable /\ Distinct /\ Apart)
    BY Zenon DEF Harmless
  <2>2. Harmless(k, b)' = (Possible /\ Placeable /\ Distinct /\ Apart)'
    BY Zenon DEF Harmless
  <2>3. Possible' = Possible
    BY <1>4, <1>5
  <2>4. Placeable' = Placeable
    BY <1>2, <1>11
  <2>5. Distinct' = Distinct
    BY <1>11, <1>12
  <2>6. Apart' = Apart
    <3> DEFINE P(l, m, n) == /\ m = n => input.table[l].path # r.path
                             /\ IDUnder(input.table[l], m, b) = IDUnder(r, n, b)
                                   => IDUnder(r, n, b) = Blank
               L(l) == Describes(input.table[l], b)
               R    == Describes(r, b)
    <3>1. \A l, m, n : P(l, m, n)' = P(l, m, n)
      BY <1>12
    <3>2. (\A l : L(l)' = L(l)) /\ R' = R
      BY <1>11
    <3>3. Apart = \A l \in 1 .. (k - 1) : \A m \in L(l), n \in R : P(l, m, n)
      OBVIOUS
    <3>4. Apart' = \A l \in 1 .. (k - 1) : \A m \in L(l)', n \in R' : P(l, m, n)'
      OBVIOUS
    <3> HIDE DEF P, L, R, Apart
    <3> QED BY <3>1, <3>2, <3>3, <3>4
  <2> HIDE DEF Possible, Placeable, Distinct, Apart
  <2> QED BY <2>1, <2>2, <2>3, <2>4, <2>5, <2>6
<1>14. \A b : HarmlessWebhooks(b)' = HarmlessWebhooks(b)
  BY <1>11, <1>12 DEF HarmlessWebhooks
<1> QED BY <1>11, <1>12, <1>13, <1>14

LEMMA ShownStep ==
    ASSUME ShownInv, [GeneratorNext]_vars, NEW g \in Generations
    PROVE  DraftsShown(g)' /\ RowsShown(g)' /\ WebhooksShown(g)' /\ Traced(g)'
<1>0. /\ TypeInv /\ input' = input /\ BindingFirst(g) /\ OwnDraftsWin
      /\ DraftsShown(g) /\ RowsShown(g) /\ WebhooksShown(g) /\ Traced(g)
      /\ gen[g] \in Progress /\ gen[g].next \in Nat /\ Unbound \notin Documented
      /\ input.table \in Seq(Rows)
  <2>1. /\ TypeInv /\ BindingFirst(g) /\ OwnDraftsWin
        /\ DraftsShown(g) /\ RowsShown(g) /\ WebhooksShown(g) /\ Traced(g)
    BY DEF ShownInv, DocumentInv, BindingInv, OwnInv
  <2> QED
    BY <2>1, StepCases, InputTyped, GeneratorAssumption DEF TypeInv, GeneratorTypeOK, Progress
<1>1. /\ Listed' = Listed /\ Documented' = Documented
      /\ \A s : Candidates(s)' = Candidates(s) /\ UndeclaredIDs(s)' = UndeclaredIDs(s)
  BY <1>0 DEF Listed, Documented, Candidates, Covered, UndeclaredIDs
<1>2. /\ \A r, b : Describes(r, b)' = Describes(r, b)
      /\ \A r, m, b : IDUnder(r, m, b)' = IDUnder(r, m, b)
      /\ \A k, b : Harmless(k, b)' = Harmless(k, b)
      /\ \A b : HarmlessWebhooks(b)' = HarmlessWebhooks(b)
  BY <1>0, SameInput
<1>a. ASSUME gen'[g].operations = gen[g].operations, gen'[g].ids = gen[g].ids,
             gen'[g].bindings = gen[g].bindings, gen'[g].next \in {gen[g].next, gen[g].next + 1},
             gen'[g].finished = gen[g].finished
      PROVE  Traced(g)'
  <2> DEFINE b == gen[g].bindings
  <2>1. \A k \in 1 .. (gen[g].next - 1) : k \in 1 .. (gen'[g].next - 1)
    BY <1>0, <1>a
  <2>2. ASSUME NEW o \in gen'[g].operations
        PROVE  \E k \in 1 .. (gen'[g].next - 1) :
                  o.row = input.table[k] /\ o.method \in Describes(input.table[k], b)
    BY <1>0, <1>a, <2>1 DEF Traced
  <2>3. ASSUME ~gen'[g].finished, NEW i \in gen'[g].ids
        PROVE  \E k \in 1 .. (gen'[g].next - 1) :
                  \E m \in Describes(input.table[k], b) :
                     i = IDUnder(input.table[k], m, b)
    BY <1>0, <1>a, <2>1, <2>3 DEF Traced
  <2>4. gen'[g].bindings = b
    BY <1>a
  <2> HIDE DEF b
  <2>5. input' = input
    BY <1>0
  <2> QED BY <1>2, <2>2, <2>3, <2>4, <2>5 DEF Traced
<1>b. AtRow(g) => ~gen[g].finished
  <2>1. Ended(g)
    BY DEF ShownInv, DocumentInv, BindingInv
  <2>2. gen[g].next \in Nat /\ Len(input.table) \in Nat
    BY <1>0
  <2> QED BY <2>1, <2>2 DEF Ended, AtRow
<1> USE DEF DraftsShown, RowsShown, WebhooksShown, Traced
<1>3. CASE gen'[g] = gen[g]
  <2>1. Traced(g)'
    BY <1>3, <1>a
  <2>2. RowsShown(g)' /\ WebhooksShown(g)'
    BY <1>0, <1>2, <1>3
  <2>3. DraftsShown(g)'
    BY <1>0, <1>1, <1>3
  <2> HIDE DEF DraftsShown, RowsShown, WebhooksShown, Traced
  <2> QED BY <2>1, <2>2, <2>3
<1>4. CASE Lost(g)
  <2>1. gen'[g].issues # {} /\ Keeps(g, {"bindings", "next", "operations", "ids", "finished"})
    BY <1>4 DEF Lost
  <2>2. Traced(g)'
    BY <1>a, <2>1 DEF Keeps
  <2> QED BY <2>1, <2>2
<1>5. CASE Bound(g)
  <2>1. PICK s \in gen[g].todo \cap Listed :
            /\ gen'[g].todo = gen[g].todo \ {s}
            /\ gen'[g].issues = {} <=>
                  gen[g].issues = {} /\ UndeclaredIDs(s) = {} /\ Taken(s, gen[g].bindings) = {}
            /\ Keeps(g, {"next", "operations", "ids", "finished"})
    BY <1>5 DEF Bound
  <2>2. gen[g].next = 1 /\ gen[g].operations = {} /\ ~gen[g].finished /\ gen[g].ids = {}
    <3>1. gen[g].next = 1 /\ gen[g].operations = {} /\ ~gen[g].finished
      BY <1>0, <2>1 DEF BindingFirst
    <3> QED BY <1>0, <3>1
  <2>3. RowsShown(g)' /\ WebhooksShown(g)' /\ Traced(g)'
    BY <2>1, <2>2 DEF Keeps
  <2>4. DraftsShown(g)'
    <3> SUFFICES ASSUME gen'[g].issues = {}
                 PROVE  \A t \in Documented \ gen'[g].todo :
                           /\ t \in Listed /\ UndeclaredIDs(t) = {}
                           /\ \A u \in Documented \ gen'[g].todo :
                                 t # u => ~(t \in Candidates(u) /\ u \in Candidates(t))
      BY <1>1
    <3>1. gen[g].issues = {} /\ UndeclaredIDs(s) = {} /\ Taken(s, gen[g].bindings) = {}
      BY <2>1
    <3>2. ASSUME NEW t \in Documented \ gen[g].todo, t \in Candidates(s), t # s
          PROVE  FALSE
      <4>1. t \in Listed /\ gen[g].bindings[t] = t /\ t # Unbound
        BY <1>0, <3>1, <3>2 DEF OwnDraftsWin
      <4> QED BY <3>1, <3>2, <4>1 DEF Taken
    <3> QED BY <1>0, <2>1, <3>1, <3>2
  <2> HIDE DEF DraftsShown, RowsShown, WebhooksShown, Traced
  <2> QED BY <2>3, <2>4
<1>6. CASE Passed(g)
  <2>1. /\ gen'[g].next = gen[g].next + 1 /\ AtRow(g)
        /\ Keeps(g, {"todo", "bindings", "operations", "ids", "issues", "finished"})
        /\ Skipped(input.table[gen[g].next], gen[g].bindings[input.table[gen[g].next]])
    BY <1>6 DEF Passed, Current, Author
  <2>2. /\ Describes(input.table[gen[g].next], gen[g].bindings) = {}
        /\ Harmless(gen[g].next, gen[g].bindings)
    BY <2>1 DEF Describes, Harmless
  <2>3. \A k \in 1 .. (gen'[g].next - 1) : k \in 1 .. (gen[g].next - 1) \/ k = gen[g].next
    BY <1>0, <2>1
  <2>5. ~gen[g].finished
    BY <1>b, <2>1
  <2>6. DraftsShown(g)' /\ WebhooksShown(g)'
    BY <1>0, <1>1, <2>1, <2>5 DEF Keeps
  <2>7. RowsShown(g)'
    BY <1>0, <1>2, <2>1, <2>2, <2>3 DEF Keeps
  <2>8. Traced(g)'
    BY <1>a, <2>1 DEF Keeps
  <2> QED BY <2>6, <2>7, <2>8
<1>7. CASE Described(g)
  <2> DEFINE r      == Current(g)
             k      == gen[g].next
             b      == gen[g].bindings
             source == Author(g)
             fresh  == Fresh(r, source, gen[g].operations)
             issued == RowIssues(r, source, gen[g].operations, gen[g].ids)
  <2>1. /\ AtRow(g) /\ ~Skipped(r, source)
        /\ gen'[g].next = k + 1 /\ gen'[g].bindings = b
        /\ gen'[g].todo = gen[g].todo /\ gen'[g].finished = gen[g].finished
        /\ gen'[g].operations = gen[g].operations \cup {Operation(r, m, source) : m \in Placed(fresh)}
        /\ gen'[g].ids = gen[g].ids \cup {OperationID(r, m, source) : m \in fresh}
        /\ gen'[g].issues = gen[g].issues \cup issued
    BY <1>7 DEF Described, Keeps
  <2>2. r = input.table[k] /\ source = b[r]
    BY DEF Current, Author
  <2>3. gen'[g].issues = {} =>
            gen[g].issues = {} /\ Harmless(k, b) /\ Describes(r, b) = fresh
    BY <2>1, HarmlessWithoutIssues
  <2>4. fresh \subseteq Describes(r, b) /\ \A m : IDUnder(r, m, b) = OperationID(r, m, source)
    BY <2>1, <2>2 DEF Fresh, Describes, IDUnder
  <2>5. \A o \in {Operation(r, m, source) : m \in Placed(fresh)} : o.row = r /\ o.method \in fresh
    BY DEF Operation, Placed
  <2>6. \A l \in 1 .. (gen'[g].next - 1) : l \in 1 .. (k - 1) \/ l = k
    BY <1>0, <2>1
  <2>7. k \in 1 .. (gen'[g].next - 1) /\ \A l \in 1 .. (k - 1) : l \in 1 .. (gen'[g].next - 1)
    <3>1. k >= 1
      BY <1>0 DEF Progress
    <3> QED BY <1>0, <2>1, <3>1
  <2>8. ~gen[g].finished
    BY <1>b, <2>1
  <2> HIDE DEF r, k, b, source, fresh, issued
  <2>9. DraftsShown(g)' /\ WebhooksShown(g)'
    BY <1>0, <1>1, <2>1, <2>3, <2>8
  <2>10. RowsShown(g)'
    <3> SUFFICES ASSUME gen'[g].issues = {}, NEW l \in 1 .. (gen'[g].next - 1)
                 PROVE  /\ Harmless(l, b)
                        /\ \A m \in Describes(input.table[l], b) :
                              IDUnder(input.table[l], m, b) \in gen'[g].ids
      BY <1>0, <1>2, <2>1
    <3>1. CASE l = k
      BY <2>1, <2>2, <2>3, <2>4, <3>1
    <3>2. CASE l \in 1 .. (k - 1)
      BY <1>0, <2>1, <2>3, <3>2 DEF k, b
    <3> QED BY <2>6, <3>1, <3>2
  <2>11. Traced(g)'
    <3>1. ASSUME NEW o \in gen'[g].operations
          PROVE  \E l \in 1 .. (gen'[g].next - 1) :
                    o.row = input.table[l] /\ o.method \in Describes(input.table[l], b)
      <4>1. CASE o \in gen[g].operations
        BY <1>0, <2>7, <4>1 DEF k, b
      <4>2. CASE o \notin gen[g].operations
        BY <2>1, <2>2, <2>4, <2>5, <2>7, <3>1, <4>2
      <4> QED BY <4>1, <4>2
    <3>2. ASSUME NEW i \in gen'[g].ids
          PROVE  \E l \in 1 .. (gen'[g].next - 1) : \E m \in Describes(input.table[l], b) :
                    i = IDUnder(input.table[l], m, b)
      <4>1. CASE i \in gen[g].ids
        BY <1>0, <2>7, <2>8, <4>1 DEF k, b
      <4>2. CASE i \notin gen[g].ids
        BY <2>1, <2>2, <2>4, <2>7, <3>2, <4>2
      <4> QED BY <4>1, <4>2
    <3>3. gen'[g].bindings = b /\ input' = input
      BY <1>0, <2>1
    <3> HIDE DEF DraftsShown, RowsShown, WebhooksShown
    <3> QED BY <1>2, <3>1, <3>2, <3>3
  <2> HIDE DEF DraftsShown, RowsShown, WebhooksShown, Traced
  <2> QED BY <2>9, <2>10, <2>11
<1>8. CASE Closed(g)
  <2>1. /\ Keeps(g, {"todo", "bindings", "next", "operations"})
        /\ gen'[g].finished /\ gen[g].ids \subseteq gen'[g].ids
        /\ gen[g].next > Len(input.table)
        /\ gen'[g].issues = {} <=>
              /\ gen[g].issues = {}
              /\ Collisions(DOMAIN input.webhooks, input.webhooks, gen[g].ids) = {}
    BY <1>8 DEF Closed
  <2>2. DraftsShown(g)' /\ RowsShown(g)' /\ Traced(g)'
    BY <1>0, <1>1, <1>2, <2>1 DEF Keeps
  <2>3. WebhooksShown(g)'
    <3> SUFFICES ASSUME gen'[g].issues = {}
                 PROVE  HarmlessWebhooks(gen[g].bindings)
      BY <1>2, <2>1 DEF Keeps
    <3>1. \A k \in DOMAIN input.table : \A m \in Describes(input.table[k], gen[g].bindings) :
              IDUnder(input.table[k], m, gen[g].bindings) \in gen[g].ids
      <4>1. \A k \in DOMAIN input.table : k \in 1 .. (gen[g].next - 1)
        BY <1>0, <2>1
      <4> QED BY <1>0, <2>1, <4>1
    <3>2. \A w \in DOMAIN input.webhooks : input.webhooks[w] # Blank =>
              /\ input.webhooks[w] \notin gen[g].ids
              /\ \A v \in DOMAIN input.webhooks \ {w} : input.webhooks[v] # input.webhooks[w]
      BY <2>1, CollisionsShown
    <3> QED BY <3>1, <3>2 DEF HarmlessWebhooks
  <2> HIDE DEF DraftsShown, RowsShown, WebhooksShown, Traced
  <2> QED BY <2>2, <2>3
<1> QED BY <1>0, <1>3, <1>4, <1>5, <1>6, <1>7, <1>8, StepCases

LEMMA ShownHolds == GeneratorSpec => []ShownInv
<1>1. GeneratorInit => \A g \in Generations :
          DraftsShown(g) /\ RowsShown(g) /\ WebhooksShown(g) /\ Traced(g)
  BY DEF GeneratorInit, DraftsShown, RowsShown, WebhooksShown, Traced, Documented
<1>2. ShownInv /\ [GeneratorNext]_vars => (\A g \in Generations :
          DraftsShown(g) /\ RowsShown(g) /\ WebhooksShown(g) /\ Traced(g))'
  BY ShownStep
<1>3. ShownInv <=> DocumentInv /\ \A g \in Generations :
          DraftsShown(g) /\ RowsShown(g) /\ WebhooksShown(g) /\ Traced(g)
  BY DEF ShownInv
<1> QED BY <1>1, <1>2, <1>3, DocumentCorrect, PTL DEF GeneratorSpec

LEMMA BindingsAreAuthorship ==
    ASSUME BindingInv, NEW g \in Generations, gen[g].todo = {}, gen[g].issues = {}
    PROVE  gen[g].bindings = Authorship
<1> SUFFICES ASSUME NEW r \in Listed
             PROVE  gen[g].bindings[r] = Authorship[r]
  BY DEF BindingInv, OwnInv, TypeInv, GeneratorTypeOK, Progress, Authorship
<1>1. Authors(r) = {gen[g].bindings[r]} \ {Unbound}
  BY BindingsAreAuthors
<1>2. CASE gen[g].bindings[r] = Unbound
  BY <1>1, <1>2 DEF Authorship
<1>3. CASE gen[g].bindings[r] # Unbound
  BY <1>1, <1>3 DEF Authorship
<1> QED BY <1>2, <1>3

(***************************************************************************)
(* Where no sibling has a draft besides the first row's, drafts that have *)
(* a row in common are candidates of each other, so the second of them has*)
(* an issue whichever it is.                                               *)
(***************************************************************************)
LEMMA MutualCandidates ==
    ASSUME input \in Inputs, ~SiblingDocumented, NEW s \in Documented \cap Listed,
           NEW t \in Documented \cap Listed, s # t, t \in Candidates(s)
    PROVE  s \in Candidates(t)
<1>1. s \in Rows /\ t \in Rows
  BY InputTyped
<1>2. ~IsAny(s) /\ t.path = s.path /\ t.method \in Methods(s)
  BY DEF Candidates, Covered
<1>3. s.method \in Methods(t)
  BY <1>2 DEF SiblingDocumented
<1>4. ~IsAny(t)
  BY <1>1, <1>2, MatchAssumption DEF IsAny, Methods
<1> QED BY <1>2, <1>3, <1>4 DEF Candidates, Covered

LEMMA SuccessIsAgreeable ==
    ASSUME ShownInv, NEW g \in Generations, Succeeded(g), ~SiblingDocumented
    PROVE  Agreeable
<1>1. /\ input \in Inputs /\ BindingInv /\ Settled(g) /\ Ended(g) /\ OwnDraftsWin
      /\ DraftsShown(g) /\ RowsShown(g) /\ WebhooksShown(g)
      /\ gen[g].finished /\ gen[g].issues = {} /\ gen[g] \in Progress
  BY DEF ShownInv, DocumentInv, BindingInv, OwnInv, TypeInv, GeneratorTypeOK, Succeeded
<1>2. gen[g].todo = {} /\ gen[g].next > Len(input.table) /\ input.table \in Seq(Rows)
  BY <1>1, InputTyped DEF Ended
<1>3. gen[g].bindings = Authorship
  BY <1>1, <1>2, BindingsAreAuthorship
<1>4. \A s \in Documented : s \in Listed /\ UndeclaredIDs(s) = {}
  BY <1>1, <1>2 DEF DraftsShown
<1>5. ASSUME NEW s \in Documented, NEW t \in Documented, s # t
      PROVE  s \notin Candidates(t)
  BY <1>1, <1>2, <1>4, <1>5, MutualCandidates DEF DraftsShown
<1>6. ASSUME NEW s \in Documented, NEW t \in Documented, s # t
      PROVE  Candidates(s) \cap Candidates(t) = {}
  <2> SUFFICES ASSUME NEW r \in Candidates(s) \cap Candidates(t)
               PROVE  FALSE
    OBVIOUS
  <2>1. CASE r \in Documented
    BY <1>5, <1>6, <2>1
  <2>2. CASE r \notin Documented
    BY <1>1, <1>2, <1>4, <1>6, <2>2 DEF Settled
  <2> QED BY <2>1, <2>2
<1>7. \A k \in DOMAIN input.table : Harmless(k, Authorship)
  <2>1. \A k \in DOMAIN input.table : k \in 1 .. (gen[g].next - 1)
    BY <1>1, <1>2 DEF Progress
  <2> QED BY <1>1, <1>3, <2>1 DEF RowsShown
<1>8. HarmlessWebhooks(Authorship)
  BY <1>1, <1>3 DEF WebhooksShown
<1> QED BY <1>4, <1>5, <1>6, <1>7, <1>8 DEF Agreeable

AgreementInv == ShownInv /\ (Agreeable => \A g \in Generations : gen[g].issues = {})

LEMMA AgreeableStep ==
    ASSUME AgreementInv, [GeneratorNext]_vars, NEW g \in Generations, Agreeable
    PROVE  gen'[g].issues = {}
<1>0. /\ TypeInv /\ input' = input /\ BindingInv /\ ShownInv /\ gen[g].issues = {}
      /\ gen[g] \in Progress /\ input.table \in Seq(Rows) /\ Unbound \notin Documented
  <2>1. TypeInv /\ BindingInv /\ ShownInv /\ gen[g].issues = {}
    BY DEF AgreementInv, ShownInv, DocumentInv, BindingInv, OwnInv
  <2> QED BY <2>1, StepCases, InputTyped, GeneratorAssumption DEF TypeInv, GeneratorTypeOK
<1>1. CASE gen'[g] = gen[g] \/ Passed(g)
  BY <1>0, <1>1 DEF Passed, Keeps
<1>2. ~Lost(g)
  BY <1>0 DEF Lost, Agreeable, Progress
<1>3. CASE Bound(g)
  <2>1. PICK s \in gen[g].todo \cap Listed :
            gen'[g].issues = {} <=>
               gen[g].issues = {} /\ UndeclaredIDs(s) = {} /\ Taken(s, gen[g].bindings) = {}
    BY <1>3 DEF Bound
  <2>2. s \in Documented /\ UndeclaredIDs(s) = {}
    BY <1>0 DEF Agreeable, Progress
  <2>3. ASSUME NEW r \in Taken(s, gen[g].bindings)
        PROVE  FALSE
    <3>1. r \in Candidates(s) /\ r \in Listed /\ r # s /\ gen[g].bindings[r] \notin {Unbound, s}
      BY DEF Taken, Candidates
    <3>2. PICK t \in Documented : t = gen[g].bindings[r] /\ t # s
      BY <1>0, <3>1 DEF Progress
    <3>3. t = r \/ r \in Candidates(t)
      BY <1>0, <3>1, <3>2 DEF BindingInv, Founded
    <3> QED BY <2>2, <3>1, <3>2, <3>3 DEF Agreeable
  <2> QED BY <1>0, <2>1, <2>2, <2>3
<1>4. CASE Described(g)
  <2>1. /\ AtRow(g) /\ ~Skipped(Current(g), Author(g))
        /\ gen'[g].issues = gen[g].issues
              \cup RowIssues(Current(g), Author(g), gen[g].operations, gen[g].ids)
    BY <1>4 DEF Described
  <2>2. gen[g].next \in DOMAIN input.table /\ gen[g].todo = {}
    BY <1>0, <2>1, CurrentTyped DEF AtRow
  <2>3. Harmless(gen[g].next, gen[g].bindings)
    BY <1>0, <2>2, BindingsAreAuthorship DEF Agreeable
  <2> QED BY <1>0, <2>1, <2>3, HarmlessWithoutIssues
<1>5. CASE Closed(g) /\ ~gen[g].finished
  <2>1. /\ gen[g].todo = {}
        /\ gen'[g].issues = {} <=>
              /\ gen[g].issues = {}
              /\ Collisions(DOMAIN input.webhooks, input.webhooks, gen[g].ids) = {}
    BY <1>5 DEF Closed
  <2>2. HarmlessWebhooks(gen[g].bindings)
    BY <1>0, <2>1, BindingsAreAuthorship DEF Agreeable
  <2>3. ASSUME NEW w \in DOMAIN input.webhooks, input.webhooks[w] # Blank,
               input.webhooks[w] \in gen[g].ids
        PROVE  FALSE
    <3>1. PICK k \in 1 .. (gen[g].next - 1) :
              \E m \in Describes(input.table[k], gen[g].bindings) :
                 input.webhooks[w] = IDUnder(input.table[k], m, gen[g].bindings)
      BY <1>0, <1>5, <2>3 DEF ShownInv, Traced
    <3>2. k \in DOMAIN input.table
      BY <1>0 DEF Progress
    <3> QED BY <2>2, <2>3, <3>1, <3>2 DEF HarmlessWebhooks
  <2>4. \A w \in DOMAIN input.webhooks : input.webhooks[w] # Blank =>
            /\ input.webhooks[w] \notin gen[g].ids
            /\ \A v \in DOMAIN input.webhooks \ {w} : input.webhooks[v] # input.webhooks[w]
    BY <2>2, <2>3 DEF HarmlessWebhooks
  <2> QED BY <1>0, <2>1, <2>4, CollisionsShown
<1> QED BY <1>1, <1>2, <1>3, <1>4, <1>5, StepCases, <1>0

\* Whether an input is agreeable does not change while it is described.
LEMMA AgreeableIsStable ==
    ASSUME input' = input
    PROVE  Agreeable' = Agreeable
<1>1. /\ Listed' = Listed /\ Documented' = Documented
      /\ \A s : Candidates(s)' = Candidates(s) /\ UndeclaredIDs(s)' = UndeclaredIDs(s)
  BY DEF Listed, Documented, Candidates, Covered, UndeclaredIDs
<1>2. /\ \A k, b : Harmless(k, b)' = Harmless(k, b)
      /\ \A b : HarmlessWebhooks(b)' = HarmlessWebhooks(b)
  BY SameInput
<1>3. Authorship' = Authorship
  <2>1. \A r : Authors(r)' = Authors(r)
    BY <1>1 DEF Authors
  <2>2. ASSUME NEW r PROVE (CHOOSE s \in Authors(r) : TRUE)' = CHOOSE s \in Authors(r) : TRUE
    <3> DEFINE A == Authors(r)
    <3>1. Authors(r) = A /\ Authors(r)' = A
      BY <2>1
    <3> HIDE DEF A
    <3> QED BY <3>1
  <2> QED BY <1>1, <2>1, <2>2 DEF Authorship
<1>4. (\A s \in Documented : s \in Listed /\ UndeclaredIDs(s) = {})'
      <=> (\A s \in Documented : s \in Listed /\ UndeclaredIDs(s) = {})
  BY <1>1
<1>5. (\A s, t \in Documented : s # t =>
          s \notin Candidates(t) /\ Candidates(s) \cap Candidates(t) = {})'
      <=> (\A s, t \in Documented : s # t =>
              s \notin Candidates(t) /\ Candidates(s) \cap Candidates(t) = {})
  BY <1>1
<1> DEFINE b == Authorship
<1>6. Authorship = b /\ Authorship' = b
  BY <1>3
<1> HIDE DEF b
<1>7. (\A k \in DOMAIN input.table : Harmless(k, Authorship))'
      <=> (\A k \in DOMAIN input.table : Harmless(k, Authorship))
  BY <1>2, <1>6
<1>8. HarmlessWebhooks(Authorship)' <=> HarmlessWebhooks(Authorship)
  BY <1>2, <1>6
<1> QED BY <1>4, <1>5, <1>7, <1>8 DEF Agreeable

(***************************************************************************)
(* Two generations of one input, whatever orders their drafts are bound   *)
(* in, both fail or both write the same document, but for an input where a*)
(* sibling has a draft besides the first row's.                            *)
(***************************************************************************)
THEOREM GenerationsDoAgree == GeneratorSpec => []GenerationsAgreeApart
<1>1. GeneratorInit => \A g \in Generations : gen[g].issues = {}
  BY DEF GeneratorInit
<1>2. AgreementInv /\ [GeneratorNext]_vars /\ ShownInv' => AgreementInv'
  <2> SUFFICES ASSUME AgreementInv, [GeneratorNext]_vars, ShownInv', Agreeable',
                      NEW g \in Generations
               PROVE  gen'[g].issues = {}
    BY DEF AgreementInv
  <2>1. input' = input
    BY StepCases DEF AgreementInv, ShownInv, DocumentInv, BindingInv, OwnInv
  <2> QED BY <2>1, AgreeableIsStable, AgreeableStep
<1>3. AgreementInv => GenerationsAgreeApart
  <2> SUFFICES ASSUME AgreementInv, ~SiblingDocumented,
                      NEW g \in Generations, NEW h \in Generations,
                      gen[g].finished, gen[h].finished, Succeeded(g)
               PROVE  Succeeded(h) /\ gen[g].operations = gen[h].operations
    BY DEF GenerationsAgreeApart, GenerationsAgree
  <2>1. ShownInv /\ DocumentInv /\ BindingInv
    BY DEF AgreementInv, ShownInv, DocumentInv
  <2>2. Succeeded(h)
    BY <2>1, SuccessIsAgreeable DEF AgreementInv, Succeeded
  <2>3. gen[g].bindings = Authorship /\ gen[h].bindings = Authorship
    BY <2>1, <2>2, BindingsAreAuthorship DEF BindingInv, Ended, Succeeded
  <2>4. /\ gen[g].operations = UNION {OperationsOf(r, gen[g].bindings) : r \in Listed}
        /\ gen[h].operations = UNION {OperationsOf(r, gen[h].bindings) : r \in Listed}
    BY <2>1, <2>2, DocumentOfBindings
  <2> QED BY <2>2, <2>3, <2>4
<1>4. ShownInv /\ (\A g \in Generations : gen[g].issues = {}) => AgreementInv
  BY DEF AgreementInv
<1> QED BY <1>1, <1>2, <1>3, <1>4, ShownHolds, PTL DEF GeneratorSpec

=============================================================================
