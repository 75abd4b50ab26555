------------------------------ MODULE Generator -----------------------------
(***************************************************************************)
(* The generation of one document (generator.go, generate): the drafts are*)
(* bound to the rows of the route table, the rows become operations, the  *)
(* webhooks follow, and every step may add issues, any of which fails the *)
(* generation.                                                             *)
(*                                                                         *)
(* The drafts are bound in the iteration order of a Go map, which is any  *)
(* order and a new one each time.  Several generations of one input run   *)
(* side by side so that their outcomes can be compared; they share nothing*)
(* else.                                                                   *)
(***************************************************************************)
EXTENDS OperationDraft, FiniteSets

CONSTANTS Generations,      \* generations of the same input
          Rows,             \* the rows route tables are made of
          Inputs,           \* what a generation may be asked to describe
          Unbound,          \* the binding of an undocumented row
          Supported,        \* the methods OpenAPI can represent
          Unrepresentable,  \* the patterns OpenAPI paths cannot represent
          Qualified(_, _),        \* a route name followed by a method, "search.get"
          OperationIsValid(_, _)  \* the checks of one operation, of a row and a draft

(***************************************************************************)
(* A row is a registered method of a path.  Match registers a row for each*)
(* of its methods and returns the first; Methods of the first collects    *)
(* them all.  A pattern stands for its canonical path: no two of the      *)
(* patterns OpenAPI can represent have the same.  "package" rows are the  *)
(* module's own and those on its paths, "internal" ones those under       *)
(* /_arandu.  Rows that agree in every field are one pointer; nil entries *)
(* of a table are passed over by every loop and left out.                 *)
(***************************************************************************)
AnyMethod == "ANY"

Row == [method : HttpMethods \cup {AnyMethod}, match : SUBSET (HttpMethods \cup {AnyMethod}),
        first : BOOLEAN, path : Texts, name : Texts, module : Texts, domain : Texts,
        kind : {"application", "internal", "package"}, fallback : BOOLEAN]

Methods(r) == IF r.first THEN r.match ELSE {r.method}

\* The dimensions of a RouteFilter.  A prefix stands for the paths it begins, a
\* predicate for the set of what it accepts in one of them.
Dimensions == {"path", "name", "module", "method", "domain"}

Config == [includeUndocumented : BOOLEAN, includeInternal : BOOLEAN,
           include : [Dimensions -> SUBSET (Texts \cup HttpMethods)],
           exclude : [Dimensions -> SUBSET (Texts \cup HttpMethods)]]

ASSUME GeneratorAssumption ==
    /\ Rows \subseteq Row
    /\ Unbound \notin Rows
    /\ Supported \subseteq HttpMethods
    /\ AnyMethod \notin HttpMethods
    /\ \A r \in Rows, m \in HttpMethods :
          r.name # Blank => Qualified(r.name, m) \in Texts
    /\ \A i \in Inputs :
          /\ i.table \in Seq(Rows)
          /\ i.config \in Config
          /\ DOMAIN i.drafts \subseteq Rows
          /\ \A r \in DOMAIN i.drafts : i.drafts[r] \in Drafts
          /\ \A w \in DOMAIN i.webhooks : i.webhooks[w] \in Texts

\* What routers register: a row serves a method of its Match, Any is a registration of its
\* own, and the table has the first row of every Match, which the others are named as.
ASSUME MatchAssumption ==
    /\ \A r \in Rows : r.method \in r.match /\ (AnyMethod \in r.match => r.match = {AnyMethod})
    /\ \A i \in Inputs : \A k \in DOMAIN i.table : \E l \in DOMAIN i.table :
          /\ i.table[l].first
          /\ i.table[l].path = i.table[k].path
          /\ i.table[l].match = i.table[k].match
          /\ i.table[l].name = i.table[k].name

VARIABLES
    input,  \* route table, drafts, configuration and the operationIds of the webhooks
    gen     \* generation -> its progress

vars == <<input, gen>>

Listed == {input.table[i] : i \in DOMAIN input.table}

Documented == DOMAIN input.drafts

Issues ==
    ({"absent", "any"} \X Rows)
    \cup ({"unsupported", "undeclared", "refused", "invalid"} \X Rows \X HttpMethods)
    \cup ({"both"} \X Rows \X Rows)
    \cup ({"operationId"} \X Texts)

Operations == [row : Listed, method : Supported, source : Documented \cup {Unbound}, id : Texts]

\* The progress of a generation: the drafts still to bind, what the rows are bound
\* to, the row to come, and what was gathered.  Blank among the ids counts as none.
Progress ==
    [todo       : SUBSET Documented,
     bindings   : [Listed -> Documented \cup {Unbound}],
     next       : 1 .. (Len(input.table) + 1),
     operations : SUBSET Operations,
     ids        : SUBSET Texts,
     issues     : SUBSET Issues,
     finished   : BOOLEAN]

GeneratorTypeOK ==
    /\ Listed \cup Documented \subseteq Rows
    /\ gen \in [Generations -> Progress]

GeneratorInit ==
    /\ input \in Inputs
    /\ gen = [g \in Generations |->
                [todo |-> DOMAIN input.drafts,
                 bindings |-> [r \in Listed |-> Unbound],
                 next |-> 1, operations |-> {}, ids |-> {}, issues |-> {},
                 finished |-> FALSE]]

-----------------------------------------------------------------------------
(* bindDocumentedRoutes *)

IsAny(r) == r.method = AnyMethod

\* The methods a documented row stands for.
Covered(s) ==
    IF IsAny(s) /\ input.drafts[s].methods # {} THEN input.drafts[s].methods ELSE Methods(s)

\* Mutant: the index of the table forgets the path.
CandidatesOfMethod(s) ==
    IF IsAny(s) THEN {} ELSE {r \in Listed : r.method \in Covered(s)}

\* The rows of the table a draft documents besides its own.
Candidates(s) ==
    IF IsAny(s) THEN {} ELSE {r \in Listed : r.path = s.path /\ r.method \in Covered(s)}

\* Mutant: the last draft to come takes the row.
NoneTaken(s, bindings) == {}

\* The candidates that another draft has taken.
Taken(s, bindings) == {r \in Candidates(s) \ {s} : bindings[r] \notin {Unbound, s}}

\* The draft's own row is bound to it without asking.
BindingsAfter(s, bindings) ==
    [r \in Listed |->
        IF r = s \/ r \in Candidates(s) \ Taken(s, bindings) THEN s ELSE bindings[r]]

UndeclaredIDs(s) ==
    {<<"undeclared", s, m>> : m \in {n \in HttpMethods \ Covered(s) :
                                        input.drafts[s].operationIDs[n] # Blank}}

BindAbsent(g, s) ==
    /\ s \in gen[g].todo
    /\ s \notin Listed
    /\ gen' = [gen EXCEPT ![g].todo = @ \ {s},
                          ![g].issues = @ \cup {<<"absent", s>>}]
    /\ UNCHANGED input

Bind(g, s) ==
    /\ s \in gen[g].todo
    /\ s \in Listed
    /\ gen' = [gen EXCEPT
                  ![g].todo = @ \ {s},
                  ![g].bindings = BindingsAfter(s, @),
                  ![g].issues = @ \cup UndeclaredIDs(s)
                                  \cup {<<"both", s, r>> : r \in Taken(s, gen[g].bindings)}]
    /\ UNCHANGED input

-----------------------------------------------------------------------------
(* The loop over the route table: source is what the row is bound to. *)

\* What buildOperation describes an undocumented row by.
UndocumentedDraft ==
    [EmptyDraft EXCEPT !.responses =
        [s \in Statuses |-> IF s = "default"
                            THEN [NoResponse EXCEPT !.declared = TRUE,
                                                    !.description = "Undocumented response."]
                            ELSE NoResponse]]

DraftOf(source) == IF source = Unbound THEN UndocumentedDraft ELSE input.drafts[source]

Excluded(r) ==
    \/ r.kind = "package"
    \/ r.kind = "internal" /\ ~input.config.includeInternal

\* Mutant: a row is hidden by its own draft only.
HiddenItself(r, source) == r \in Documented /\ input.drafts[r].hidden

Hidden(r, source) == DraftOf(source).hidden

Skipped(r, source) ==
    \/ r.fallback
    \/ Hidden(r, source)
    \/ source = Unbound /\ ~input.config.includeUndocumented
    \/ Excluded(r)

\* The methods the builder's Methods chose, none if it was not called.
Chosen(source) == DraftOf(source).methods

\* methodsForRoute: what it returns, and the issues it returns with it.
MethodIssues(r, source) ==
    IF IsAny(r)
    THEN {<<"any", r>> : s \in {t \in {source} \ {Unbound} : Chosen(t) = {}}}
         \cup {<<"unsupported", r, m>> : m \in Chosen(source) \ Supported}
    ELSE {<<"unsupported", r, m>> : m \in ({r.method} \cup Chosen(source)) \ Supported}
         \cup {<<"undeclared", r, m>> :
                  m \in {n \in Chosen(source) : n \notin Methods(source)}}

MethodsOf(r, source) ==
    IF IsAny(r) THEN Chosen(source)
    ELSE {m \in {r.method} : /\ MethodIssues(r, source) = {}
                             /\ Chosen(source) = {} \/ m \in Chosen(source)}

Attribute(r, m, dimension) == IF dimension = "method" THEN m ELSE r[dimension]

Passes(r, m) ==
    \A d \in Dimensions :
        /\ input.config.include[d] # {} => Attribute(r, m, d) \in input.config.include[d]
        /\ Attribute(r, m, d) \notin input.config.exclude[d]

\* The methods of a row the document is to describe.
Wanted(r, source) == {m \in MethodsOf(r, source) : Passes(r, m)}

\* Another row of the same Match, as far as the table shows: names propagate to
\* every row of a Match, domains to its first one alone.
Linked(r) ==
    \E s \in Listed :
        /\ s.name # Blank
        /\ Cardinality(Methods(s)) > 1
        /\ <<s.path, s.domain, s.name>> = <<r.path, r.domain, r.name>>
        /\ r.method \in Methods(s)

\* Mutant: only a documented row is known to have siblings.
SeveralIfDocumented(r, source) ==
    source # Unbound /\ Cardinality(Covered(source)) > 1

SeveralMethods(r, source) ==
    IF source = Unbound THEN Linked(r) ELSE Cardinality(Covered(source)) > 1

\* operationID: Blank if there is none.
AutomaticID(r, m, source) ==
    IF r.name # Blank /\ SeveralMethods(r, source) THEN Qualified(r.name, m) ELSE r.name

GivenID(m, source) ==
    IF DraftOf(source).operationIDs[m] # Blank
    THEN DraftOf(source).operationIDs[m] ELSE DraftOf(source).operationID

OperationID(r, m, source) ==
    IF GivenID(m, source) # Blank THEN GivenID(m, source) ELSE AutomaticID(r, m, source)

Operation(r, m, source) ==
    [row |-> r, method |-> m, source |-> source, id |-> OperationID(r, m, source)]

\* Mutant: a path item accepts every method.
PlacedAnyway(methods) == methods

\* setPathOperation has no place for other methods.
Placed(methods) == methods \cap Supported

\* Mutant: an operation takes the place of an earlier one on its path.
Overwrites(r, m, operations) == FALSE

Repeats(r, m, operations) ==
    \E o \in operations : o.method = m /\ o.row.path = r.path

\* The identifiers among ids that are taken, by earlier operations or by each other.
Collisions(keys, id, ids) ==
    {k \in keys : id[k] # Blank /\ (id[k] \in ids \/ \E l \in keys \ {k} : id[l] = id[k])}

\* The methods the document can still take of those that are wanted.
Fresh(r, source, operations) ==
    {m \in Wanted(r, source) : r.path \notin Unrepresentable /\ ~Repeats(r, m, operations)}

\* What describing a row adds.
RowIssues(r, source, operations, ids) ==
    LET fresh == Fresh(r, source, operations)
        id    == [m \in fresh |-> OperationID(r, m, source)]
    IN  MethodIssues(r, source)
        \cup {<<"refused", r, m>> : m \in Wanted(r, source) \ fresh}
        \cup {<<"operationId", id[m]>> : m \in Collisions(fresh, id, ids)}
        \cup {<<"invalid", r, m>> : m \in {n \in fresh : ~OperationIsValid(r, DraftOf(source))}}

\* The row the loop is at, and what it is bound to.
Current(g) == input.table[gen[g].next]
Author(g)  == gen[g].bindings[Current(g)]

AtRow(g) == gen[g].todo = {} /\ gen[g].next <= Len(input.table)

SkipRow(g) ==
    /\ AtRow(g)
    /\ Skipped(Current(g), Author(g))
    /\ gen' = [gen EXCEPT ![g].next = @ + 1]
    /\ UNCHANGED input

DescribeRow(g) ==
    /\ AtRow(g)
    /\ ~Skipped(Current(g), Author(g))
    /\ LET r      == Current(g)
           source == Author(g)
           fresh  == Fresh(r, source, gen[g].operations)
       IN  gen' = [gen EXCEPT
              ![g].next = @ + 1,
              ![g].operations = @ \cup {Operation(r, m, source) : m \in Placed(fresh)},
              ![g].ids = @ \cup {OperationID(r, m, source) : m \in fresh},
              ![g].issues = @ \cup RowIssues(r, source, gen[g].operations, gen[g].ids)]
    /\ UNCHANGED input

(***************************************************************************)
(* generateWebhooks: the webhooks share the operationIds of the rows.     *)
(***************************************************************************)
GenerateWebhooks(g) ==
    /\ gen[g].todo = {}
    /\ gen[g].next > Len(input.table)
    /\ ~gen[g].finished
    /\ gen' = [gen EXCEPT
          ![g].finished = TRUE,
          ![g].ids = @ \cup {input.webhooks[w] : w \in DOMAIN input.webhooks},
          ![g].issues = @ \cup {<<"operationId", input.webhooks[w]>> :
                                   w \in Collisions(DOMAIN input.webhooks, input.webhooks, gen[g].ids)}]
    /\ UNCHANGED input

GeneratorNext ==
    \E g \in Generations :
        \/ \E s \in Documented : BindAbsent(g, s) \/ Bind(g, s)
        \/ SkipRow(g)
        \/ DescribeRow(g)
        \/ GenerateWebhooks(g)

GeneratorSpec == GeneratorInit /\ [][GeneratorNext]_vars

-----------------------------------------------------------------------------

Succeeded(g) == gen[g].finished /\ gen[g].issues = {}

(***************************************************************************)
(* A documented route is described by its own draft: whatever the order of*)
(* the map, once its draft was bound no other draft takes its row.        *)
(***************************************************************************)
OwnDraftsWin ==
    \A g \in Generations : \A s \in (Documented \cap Listed) \ gen[g].todo :
        gen[g].bindings[s] = s

(***************************************************************************)
(* The drafts that may describe a row, from the input alone: its own, or  *)
(* those of the Matches that registered its method and path.              *)
(***************************************************************************)
Authors(r) ==
    IF r \in Documented THEN {r}
    ELSE {s \in Documented \cap Listed :
             ~IsAny(s) /\ s.path = r.path /\ r.method \in Methods(s)}

(***************************************************************************)
(* A generation that succeeds writes the one document its input           *)
(* determines, "without map-order noise": every row has one author at     *)
(* most, and the operations are exactly those of the rows that are neither*)
(* skipped nor filtered out, each described by its author.                *)
(***************************************************************************)
DocumentIsDetermined ==
    \A g \in Generations : Succeeded(g) =>
        LET author == [r \in Listed |-> IF Authors(r) = {} THEN Unbound
                                        ELSE CHOOSE s \in Authors(r) : TRUE]
        IN  /\ \A r \in Listed : \A s, t \in Authors(r) : s = t
            /\ gen[g].operations =
                  UNION {{Operation(r, m, author[r]) : m \in Wanted(r, author[r])} :
                            r \in {q \in Listed : ~Skipped(q, author[q])}}

(***************************************************************************)
(* No method and path is described twice, and in a document no operationId*)
(* names two operations, a webhook included.                              *)
(***************************************************************************)
OperationsAreUnique ==
    \A g \in Generations :
        /\ \A o, p \in gen[g].operations :
              o.method = p.method /\ o.row.path = p.row.path => o = p
        /\ Succeeded(g) => \A o, p \in gen[g].operations :
              o.id = p.id /\ o.id # Blank => o = p
        /\ Succeeded(g) => \A o \in gen[g].operations, w \in DOMAIN input.webhooks :
              o.id = input.webhooks[w] => o.id = Blank

(***************************************************************************)
(* Hidden excludes a route from every document: neither its row nor the   *)
(* other rows of its Match, unless they have drafts of their own, appear. *)
(***************************************************************************)
HiddenRoutesStayOut ==
    \A g \in Generations : Succeeded(g) =>
        \A s \in Documented \cap Listed : input.drafts[s].hidden =>
            \A o \in gen[g].operations :
                /\ o.row # s
                /\ o.row.path = s.path /\ o.row.method \in Methods(s) /\ ~IsAny(s)
                      => o.row \in Documented

GenerationsAgree ==
    \A g, h \in Generations :
        gen[g].finished /\ gen[h].finished =>
            /\ Succeeded(g) <=> Succeeded(h)
            /\ Succeeded(g) => gen[g].operations = gen[h].operations

\* A row of a Match other than its first has a draft besides the first one's.
SiblingDocumented ==
    \E s, t \in Documented \cap Listed :
        /\ s # t
        /\ s.path = t.path
        /\ t.method \in Methods(s)
        /\ s.method \notin Methods(t)

(***************************************************************************)
(* "The same route table and registry always produce the same bytes": two *)
(* generations of one input both fail or both write the same document.    *)
(* The exception is the overlap that the sibling runs show.               *)
(***************************************************************************)
GenerationsAgreeApart == ~SiblingDocumented => GenerationsAgree

\* Domain reached the first row of a Match and not this one.
Parted(r) ==
    \E s \in Listed : s.first /\ s.path = r.path /\ s.match = r.match /\ s.domain # r.domain

(***************************************************************************)
(* A route of several methods "gets method-qualified automatic            *)
(* identifiers": where the draft gives none, every operation of a Match of*)
(* several methods has its name qualified by the method, whether the row  *)
(* Match returned is documented or none is.  Three rows fall short of it: *)
(* a sibling with a draft of its own, which knows its own method only; an *)
(* undocumented one that the draft of another registration of its method  *)
(* and path took; and one whose first row was moved to a domain, which the*)
(* generator no longer recognises as part of the Match.                   *)
(***************************************************************************)
AutomaticIDsAreQualified ==
    \A g \in Generations : \A o \in gen[g].operations :
        /\ o.row.name # Blank
        /\ Cardinality(o.row.match) > 1
        /\ GivenID(o.method, o.source) = Blank
        /\ IF o.source = Unbound THEN ~Parted(o.row)
           ELSE o.source.first /\ o.source.match = o.row.match
        => o.id = Qualified(o.row.name, o.method)
=============================================================================
