--------------------------- MODULE OperationDraft ---------------------------
(***************************************************************************)
(* The documentation draft of one route and the builder methods that      *)
(* change it (registry.go, operationDraft and OperationBuilder).          *)
(*                                                                         *)
(* A builder method hands update() a closure over the draft.  The closure *)
(* may write some fields and then return an error: the write stays.  Each *)
(* method is therefore an operator that returns the changed draft together*)
(* with whether the closure reported success.                             *)
(*                                                                         *)
(* Names, texts and schemas are opaque (already trimmed); Blank is the    *)
(* empty one.  What a closure refuses without touching the draft, a blank *)
(* name, a schema that does not snapshot, a nil media type, is the call's *)
(* field "valid".                                                         *)
(***************************************************************************)
EXTENDS Naturals, Sequences

CONSTANTS Statuses,     \* the response keys a draft may hold ("default" included)
          HttpMethods,  \* the HTTP methods a builder names
          Texts,        \* names, texts and schemas, already trimmed
          Blank         \* the empty text

ASSUME TextAssumption == Blank \in Texts /\ Blank \notin HttpMethods

NoBody == [described |-> FALSE, content |-> Blank, ref |-> Blank]

NoResponse == [declared |-> FALSE, description |-> Blank, headers |-> {}, ref |-> Blank]

RequestBodies == [described : BOOLEAN, content : Texts, ref : Texts]

ResponseDrafts == [declared : BOOLEAN, description : Texts,
                   headers : SUBSET Texts, ref : Texts]

(***************************************************************************)
(* summary stands for every text a builder replaces outright (summary,    *)
(* description, externalDocs, deprecated).                                 *)
(***************************************************************************)
Drafts ==
    [summary      : Texts,
     operationID  : Texts,
     operationIDs : [HttpMethods -> Texts],
     tags         : SUBSET Texts,
     methods      : SUBSET HttpMethods,
     parameters   : Seq(Texts),
     requestBody  : RequestBodies,
     responses    : [Statuses -> ResponseDrafts],
     security     : Seq(Texts),
     extensions   : SUBSET Texts,
     hidden       : BOOLEAN]

EmptyDraft ==
    [summary      |-> Blank,
     operationID  |-> Blank,
     operationIDs |-> [m \in HttpMethods |-> Blank],
     tags         |-> {},
     methods      |-> {},
     parameters   |-> <<>>,
     requestBody  |-> NoBody,
     responses    |-> [s \in Statuses |-> NoResponse],
     security     |-> <<>>,
     extensions   |-> {},
     hidden       |-> FALSE]

(***************************************************************************)
(* The calls a client can make on a builder.                              *)
(***************************************************************************)
BuilderCall ==
    [op : {"Summary", "OperationID"}, text : Texts]
    \cup [op : {"OperationIDFor"}, method : HttpMethods, text : Texts]
    \cup [op : {"Tags"}, list : Seq(Texts)]
    \cup [op : {"Methods"}, list : Seq(HttpMethods \cup {Blank})]
    \cup [op : {"Parameter", "Security", "Extension", "RequestBody", "RequestBodyRef"},
          text : Texts, valid : BOOLEAN]
    \cup [op : {"RequestBodyDescription", "Hidden"}]
    \cup [op : {"Response", "ResponseRef", "ResponseHeader"},
          status : Statuses, text : Texts, valid : BOOLEAN]

-----------------------------------------------------------------------------

Accepted(d) == [draft |-> d, ok |-> TRUE]
Refused(d)  == [draft |-> d, ok |-> FALSE]

SetSummary(d, text) == Accepted([d EXCEPT !.summary = text])

\* The blank identifier is written before it is refused.
SetOperationID(d, id) ==
    [draft |-> [d EXCEPT !.operationID = id], ok |-> id # Blank]

SetOperationIDFor(d, method, id) ==
    IF id = Blank THEN Refused(d) ELSE Accepted([d EXCEPT !.operationIDs[method] = id])

\* Mutant: the blank element is appended before it is refused.
UpToBlank(list) ==
    {list[i] : i \in {j \in DOMAIN list : \A k \in 1 .. (j - 1) : list[k] # Blank}}

\* The elements of a list that come before its first blank one.
BeforeBlank(list) ==
    {list[i] : i \in {j \in DOMAIN list : \A k \in 1 .. j : list[k] # Blank}}

HasBlank(list) == \E i \in DOMAIN list : list[i] = Blank

\* Tags empties the old list first, so a blank tag leaves a prefix of the new one.
SetTags(d, list) ==
    [draft |-> [d EXCEPT !.tags = BeforeBlank(list)], ok |-> ~HasBlank(list)]

\* Methods does the same, and an empty list is an error too.
SetMethods(d, list) ==
    [draft |-> [d EXCEPT !.methods = BeforeBlank(list)],
     ok |-> ~HasBlank(list) /\ list # <<>>]

AddParameter(d, name, valid) ==
    IF valid THEN Accepted([d EXCEPT !.parameters = Append(@, name)]) ELSE Refused(d)

AddSecurity(d, scheme, valid) ==
    IF valid THEN Accepted([d EXCEPT !.security = Append(@, scheme)]) ELSE Refused(d)

SetExtension(d, name, valid) ==
    IF valid THEN Accepted([d EXCEPT !.extensions = @ \cup {name}]) ELSE Refused(d)

SetRequestBody(d, content, valid) ==
    IF valid THEN Accepted([d EXCEPT !.requestBody = [NoBody EXCEPT !.content = content]])
             ELSE Refused(d)

SetRequestBodyRef(d, component, valid) ==
    IF valid THEN Accepted([d EXCEPT !.requestBody = [NoBody EXCEPT !.ref = component]])
             ELSE Refused(d)

DescribeRequestBody(d) == Accepted([d EXCEPT !.requestBody.described = TRUE])

\* Declaring a response again keeps the headers the status already has.
SetResponse(d, status, description, valid) ==
    IF valid
    THEN Accepted([d EXCEPT !.responses[status] =
                      [declared    |-> TRUE,
                       description |-> description,
                       headers     |-> d.responses[status].headers,
                       ref         |-> Blank]])
    ELSE Refused(d)

\* A reference replaces the response, its headers included.
SetResponseRef(d, status, component, valid) ==
    IF valid
    THEN Accepted([d EXCEPT !.responses[status] =
                      [NoResponse EXCEPT !.declared = TRUE, !.ref = component]])
    ELSE Refused(d)

\* A header creates the response when there is none, with no description.
\* A refused header creates it too only once its status and name were accepted;
\* the remaining failure, a default schema that does not build, cannot happen.
AddResponseHeader(d, status, name, valid) ==
    IF valid
    THEN Accepted([d EXCEPT !.responses[status].declared = TRUE,
                            !.responses[status].headers = @ \cup {name}])
    ELSE Refused(d)

Hide(d) == Accepted([d EXCEPT !.hidden = TRUE])

(***************************************************************************)
(* What the closure of one call does to a draft.                          *)
(***************************************************************************)
Change(d, call) ==
    CASE call.op = "Summary"                -> SetSummary(d, call.text)
      [] call.op = "OperationID"            -> SetOperationID(d, call.text)
      [] call.op = "OperationIDFor"         -> SetOperationIDFor(d, call.method, call.text)
      [] call.op = "Tags"                   -> SetTags(d, call.list)
      [] call.op = "Methods"                -> SetMethods(d, call.list)
      [] call.op = "Parameter"              -> AddParameter(d, call.text, call.valid)
      [] call.op = "Security"               -> AddSecurity(d, call.text, call.valid)
      [] call.op = "Extension"              -> SetExtension(d, call.text, call.valid)
      [] call.op = "RequestBody"            -> SetRequestBody(d, call.text, call.valid)
      [] call.op = "RequestBodyRef"         -> SetRequestBodyRef(d, call.text, call.valid)
      [] call.op = "RequestBodyDescription" -> DescribeRequestBody(d)
      [] call.op = "Response"               -> SetResponse(d, call.status, call.text, call.valid)
      [] call.op = "ResponseRef"            -> SetResponseRef(d, call.status, call.text, call.valid)
      [] call.op = "ResponseHeader"         -> AddResponseHeader(d, call.status, call.text, call.valid)
      [] call.op = "Hidden"                 -> Hide(d)
=============================================================================
