----------------------------- MODULE MCGenerator ----------------------------
(***************************************************************************)
(* Route tables of the shapes the generator tells apart, with every way of*)
(* documenting at most two of their rows.                                 *)
(***************************************************************************)
EXTENDS Generator, TLC

Registered(method, match, first, path, name) ==
    [method |-> method, match |-> match, first |-> first, path |-> path, name |-> name,
     module |-> "app", domain |-> Blank, kind |-> "application", fallback |-> FALSE]

MCQualified(name, method) == name \o "." \o method

MCTexts ==
    {"", "x", "y", "gone", "/x", "/y", "/y/", "d", "app", "ok"}
    \cup {MCQualified(name, method) : name \in {"x", "y", "gone", "x.POST"}, method \in HttpMethods}

Single(method, path, name) == Registered(method, {method}, TRUE, path, name)

\* What one call of Match registers: the first row, then a row for each other method.
First(methods, method, path, name)   == Registered(method, methods, TRUE, path, name)
Sibling(methods, method, path, name) == Registered(method, methods, FALSE, path, name)

Search == {"GET", "POST"}
Update == {"PUT", "PATCH", "POST"}

MatchTable == <<First(Search, "GET", "/x", "x"), Sibling(Search, "POST", "/x", "x"),
                Single("GET", "/y", "x.POST")>>

\* Two routers in one table: the same method and path twice.
JoinedTable == <<[Single("GET", "/x", "x") EXCEPT !.domain = "d"],
                 Single("GET", "/x", "y"), Single("POST", "/x", "x")>>

\* Rows the package excludes, or cannot represent.
OddTable == <<Single(AnyMethod, "/x", "x"),
              [Single("GET", "/x", "y") EXCEPT !.kind = "internal"],
              Single("CONNECT", "/y", Blank),
              Single("GET", "/y/", "y")>>

OwnTable == <<[Single("GET", "/y", "y") EXCEPT !.kind = "package"],
              [Single("GET", "/x", "x") EXCEPT !.fallback = TRUE],
              First(Search, "POST", "/x", Blank), Sibling(Search, "GET", "/x", Blank)>>

\* Domain, called on what Match returns, reaches the first row only.
DomainTable == <<[First(Update, "PUT", "/x", "x") EXCEPT !.domain = "d"],
                 Sibling(Update, "PATCH", "/x", "x"), Sibling(Update, "POST", "/x", "x")>>

\* The same method and path registered alone and by a Match, under two domains.
OverlapTable == <<[Single("GET", "/x", "x") EXCEPT !.domain = "d"],
                  First(Search, "GET", "/x", "x"), Sibling(Search, "POST", "/x", "x")>>

RowsOf(table) == {table[i] : i \in DOMAIN table}

Gone == Single("PUT", "/y", "gone")

MCRows == {Gone} \cup UNION {RowsOf(t) : t \in {MatchTable, JoinedTable, OddTable,
                                                OwnTable, DomainTable, OverlapTable}}

----------------------------------------------------------------------------

Answering == [EmptyDraft EXCEPT !.responses["200"] =
                 [NoResponse EXCEPT !.declared = TRUE, !.description = "ok"]]

MCDrafts ==
    {EmptyDraft,
     Answering,
     [Answering EXCEPT !.hidden = TRUE],
     [Answering EXCEPT !.operationID = "x"],
     [Answering EXCEPT !.operationIDs["POST"] = "y"],
     [Answering EXCEPT !.methods = {"POST"}]}

Connecting == [Answering EXCEPT !.methods = {"CONNECT", "PUT"}]

\* Validation asks every operation for a response.
MCOperationIsValid(row, draft) == \E s \in Statuses : draft.responses[s].declared

NoFilter == [d \in Dimensions |-> {}]

MCConfigs ==
    {[includeUndocumented |-> all, includeInternal |-> all,
      include |-> NoFilter, exclude |-> NoFilter] : all \in BOOLEAN}
    \cup {[includeUndocumented |-> TRUE, includeInternal |-> FALSE,
           include |-> NoFilter, exclude |-> [NoFilter EXCEPT !["domain"] = {"d"}]],
          [includeUndocumented |-> FALSE, includeInternal |-> TRUE,
           include |-> [NoFilter EXCEPT !["method"] = {"POST"}], exclude |-> NoFilter]}

InputsOf(tables, others, drafts, configs, webhooks) ==
    UNION {[table : {t}, config : configs, webhooks : webhooks,
            drafts : UNION {[documented -> drafts] :
                documented \in {d \in SUBSET (RowsOf(t) \cup others) : Cardinality(d) <= 2}}] :
              t \in tables}

Webhooks == {<<>>, <<"x", Blank>>}

MCInputs ==
    InputsOf({MatchTable, JoinedTable, OddTable, OwnTable}, {}, MCDrafts, MCConfigs, Webhooks)
    \cup InputsOf({MatchTable}, {Gone}, {Answering}, MCConfigs, {<<"x", "x">>})
    \cup InputsOf({DomainTable, OverlapTable, OddTable}, {}, {Answering, Connecting}, MCConfigs, Webhooks)

\* Both rows of a Match documented.
MCSiblingInputs ==
    InputsOf({MatchTable}, {}, {Answering},
             {[includeUndocumented |-> FALSE, includeInternal |-> FALSE,
               include |-> NoFilter, exclude |-> NoFilter]}, {<<>>})

MCSymmetry == Permutations(Generations)
=============================================================================
