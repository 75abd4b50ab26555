--------------------------- MODULE RegistryProofs ---------------------------
(***************************************************************************)
(* What the registry guarantees for any number of clients, routes, names  *)
(* and calls.                                                              *)
(***************************************************************************)
EXTENDS Registry, TLAPS

(***************************************************************************)
(* A builder method leaves a draft a draft, whatever it refuses: first    *)
(* field by field, then for every method.                                 *)
(***************************************************************************)
LEMMA BeforeBlankElements ==
    ASSUME NEW S, NEW list \in Seq(S)
    PROVE  BeforeBlank(list) \subseteq S \ {Blank}
  <1> SUFFICES ASSUME NEW i \in DOMAIN list, \A k \in 1 .. i : list[k] # Blank
               PROVE  list[i] \in S \ {Blank}
    BY DEF BeforeBlank
  <1>1. i \in Nat /\ i >= 1
    OBVIOUS
  <1>2. i \in 1 .. i
    BY <1>1
  <1>3. list[i] \in S
    OBVIOUS
  <1> QED
    BY <1>2, <1>3

LEMMA FieldChange ==
    ASSUME NEW d \in Drafts
    PROVE  /\ \A v \in Seq(Texts) : [d EXCEPT !.parameters = v] \in Drafts
           /\ \A v \in Seq(Texts) : [d EXCEPT !.security = v] \in Drafts
           /\ \A v \in SUBSET Texts : [d EXCEPT !.extensions = v] \in Drafts
           /\ \A v \in SUBSET Texts : [d EXCEPT !.tags = v] \in Drafts
           /\ \A v \in SUBSET HttpMethods : [d EXCEPT !.methods = v] \in Drafts
           /\ \A v \in RequestBodies : [d EXCEPT !.requestBody = v] \in Drafts
           /\ \A v \in [Statuses -> ResponseDrafts] : [d EXCEPT !.responses = v] \in Drafts
           /\ \A v \in [HttpMethods -> Texts] : [d EXCEPT !.operationIDs = v] \in Drafts
  BY DEF Drafts

LEMMA SingleTextChange ==
    ASSUME NEW d \in Drafts, NEW text \in Texts, NEW valid \in BOOLEAN
    PROVE  /\ SetSummary(d, text).draft \in Drafts
           /\ SetOperationID(d, text).draft \in Drafts
           /\ AddParameter(d, text, valid).draft \in Drafts
           /\ AddSecurity(d, text, valid).draft \in Drafts
           /\ SetExtension(d, text, valid).draft \in Drafts
           /\ SetRequestBody(d, text, valid).draft \in Drafts
           /\ SetRequestBodyRef(d, text, valid).draft \in Drafts
  <1>1. SetSummary(d, text).draft \in Drafts
    BY DEF SetSummary, Accepted, Drafts
  <1>2. SetOperationID(d, text).draft \in Drafts
    BY DEF SetOperationID, Drafts
  <1>3. AddParameter(d, text, valid).draft \in Drafts
    <2>1. Append(d.parameters, text) \in Seq(Texts)
      BY DEF Drafts
    <2> QED
      BY <2>1, FieldChange DEF AddParameter, Accepted, Refused
  <1>4. AddSecurity(d, text, valid).draft \in Drafts
    <2>1. Append(d.security, text) \in Seq(Texts)
      BY DEF Drafts
    <2> QED
      BY <2>1, FieldChange DEF AddSecurity, Accepted, Refused
  <1>5. SetExtension(d, text, valid).draft \in Drafts
    <2>1. d.extensions \cup {text} \in SUBSET Texts
      BY DEF Drafts
    <2> QED
      BY <2>1, FieldChange DEF SetExtension, Accepted, Refused
  <1>6. SetRequestBody(d, text, valid).draft \in Drafts
    <2>1. [NoBody EXCEPT !.content = text] \in RequestBodies
      BY TextAssumption DEF NoBody, RequestBodies
    <2> QED
      BY <2>1, FieldChange DEF SetRequestBody, Accepted, Refused
  <1>7. SetRequestBodyRef(d, text, valid).draft \in Drafts
    <2>1. [NoBody EXCEPT !.ref = text] \in RequestBodies
      BY TextAssumption DEF NoBody, RequestBodies
    <2> QED
      BY <2>1, FieldChange DEF SetRequestBodyRef, Accepted, Refused
  <1> QED
    BY <1>1, <1>2, <1>3, <1>4, <1>5, <1>6, <1>7

LEMMA FlagChange ==
    ASSUME NEW d \in Drafts
    PROVE  DescribeRequestBody(d).draft \in Drafts /\ Hide(d).draft \in Drafts
  <1>1. [d.requestBody EXCEPT !.described = TRUE] \in RequestBodies
    BY DEF Drafts, RequestBodies
  <1>2. DescribeRequestBody(d).draft \in Drafts
    BY <1>1, FieldChange DEF DescribeRequestBody, Accepted
  <1>3. Hide(d).draft \in Drafts
    BY DEF Hide, Accepted, Drafts
  <1> QED
    BY <1>2, <1>3

LEMMA ResponseChange ==
    ASSUME NEW d \in Drafts, NEW status \in Statuses, NEW text \in Texts,
           NEW valid \in BOOLEAN
    PROVE  /\ SetResponse(d, status, text, valid).draft \in Drafts
           /\ SetResponseRef(d, status, text, valid).draft \in Drafts
           /\ AddResponseHeader(d, status, text, valid).draft \in Drafts
  <1>0. d.responses \in [Statuses -> ResponseDrafts]
    BY DEF Drafts
  <1>1. ASSUME NEW response \in ResponseDrafts
        PROVE  [d EXCEPT !.responses[status] = response] \in Drafts
    <2>1. [d.responses EXCEPT ![status] = response] \in [Statuses -> ResponseDrafts]
      BY <1>0
    <2> QED
      BY <2>1, FieldChange
  <1>2. SetResponse(d, status, text, valid).draft \in Drafts
    <2>1. [declared |-> TRUE, description |-> text,
           headers |-> d.responses[status].headers, ref |-> Blank] \in ResponseDrafts
      BY <1>0, TextAssumption DEF ResponseDrafts
    <2> QED
      BY <1>1, <2>1 DEF SetResponse, Accepted, Refused
  <1>3. SetResponseRef(d, status, text, valid).draft \in Drafts
    <2>1. [NoResponse EXCEPT !.declared = TRUE, !.ref = text] \in ResponseDrafts
      BY TextAssumption DEF ResponseDrafts, NoResponse
    <2> QED
      BY <1>1, <2>1 DEF SetResponseRef, Accepted, Refused
  <1>4. AddResponseHeader(d, status, text, valid).draft \in Drafts
    <2> DEFINE response == [d.responses[status] EXCEPT !.declared = TRUE,
                                                       !.headers = @ \cup {text}]
    <2>1. response \in ResponseDrafts
      BY <1>0, TextAssumption DEF ResponseDrafts
    <2>2. [d EXCEPT !.responses[status].declared = TRUE,
                    !.responses[status].headers = @ \cup {text}]
             = [d EXCEPT !.responses[status] = response]
      BY <1>0 DEF Drafts, ResponseDrafts
    <2> QED
      BY <1>1, <2>1, <2>2 DEF AddResponseHeader, Accepted, Refused
  <1> QED
    BY <1>2, <1>3, <1>4

LEMMA ListChange ==
    ASSUME NEW d \in Drafts
    PROVE  /\ \A list \in Seq(Texts) : SetTags(d, list).draft \in Drafts
           /\ \A list \in Seq(HttpMethods \cup {Blank}) : SetMethods(d, list).draft \in Drafts
           /\ \A method \in HttpMethods, text \in Texts :
                 SetOperationIDFor(d, method, text).draft \in Drafts
  <1>1. ASSUME NEW list \in Seq(Texts)
        PROVE  SetTags(d, list).draft \in Drafts
    BY BeforeBlankElements DEF SetTags, Drafts
  <1>2. ASSUME NEW list \in Seq(HttpMethods \cup {Blank})
        PROVE  SetMethods(d, list).draft \in Drafts
    <2>1. BeforeBlank(list) \in SUBSET HttpMethods
      BY BeforeBlankElements
    <2> QED
      BY <2>1 DEF SetMethods, Drafts
  <1>3. ASSUME NEW method \in HttpMethods, NEW text \in Texts
        PROVE  SetOperationIDFor(d, method, text).draft \in Drafts
    <2>1. [d.operationIDs EXCEPT ![method] = text] \in [HttpMethods -> Texts]
      BY DEF Drafts
    <2> QED
      BY <2>1, FieldChange DEF SetOperationIDFor, Accepted, Refused
  <1> QED
    BY <1>1, <1>2, <1>3

LEMMA ChangeType ==
    ASSUME NEW d \in Drafts, NEW call \in BuilderCall
    PROVE  Change(d, call).draft \in Drafts
  <1>1. CASE call \in [op : {"Summary", "OperationID"}, text : Texts]
    BY <1>1, SingleTextChange DEF Change
  <1>2. CASE call \in [op : {"OperationIDFor"}, method : HttpMethods, text : Texts]
    BY <1>2, ListChange DEF Change
  <1>3. CASE call \in [op : {"Tags"}, list : Seq(Texts)]
    BY <1>3, ListChange DEF Change
  <1>4. CASE call \in [op : {"Methods"}, list : Seq(HttpMethods \cup {Blank})]
    BY <1>4, ListChange DEF Change
  <1>5. CASE call \in [op : {"Parameter", "Security", "Extension", "RequestBody",
                             "RequestBodyRef"},
                       text : Texts, valid : BOOLEAN]
    BY <1>5, SingleTextChange DEF Change
  <1>6. CASE call \in [op : {"RequestBodyDescription", "Hidden"}]
    BY <1>6, FlagChange DEF Change
  <1>7. CASE call \in [op : {"Response", "ResponseRef", "ResponseHeader"},
                       status : Statuses, text : Texts, valid : BOOLEAN]
    BY <1>7, ResponseChange DEF Change
  <1> QED
    BY <1>1, <1>2, <1>3, <1>4, <1>5, <1>6, <1>7 DEF BuilderCall

LEMMA EmptyDraftType == EmptyDraft \in Drafts
  BY TextAssumption DEF EmptyDraft, Drafts, NoBody, RequestBodies, NoResponse, ResponseDrafts
-----------------------------------------------------------------------------
(***************************************************************************)
(* A builder is handed out only for a documented route: what lets update  *)
(* read the draft of its route.                                            *)
(***************************************************************************)
BuildersAreDocumented ==
    \A r \in Routes :
       /\ r \in builders => drafts[r] # Undocumented
       /\ drafts[r] = Undocumented <=> intended[r] = Undocumented

\* What a Models call has still to register are names of its batch.
ModelsAreNamed == \A c \in Clients : work[c].todo \subseteq Named(work[c].batch)

TypeInv == RegistryTypeOK /\ BuildersAreDocumented /\ ModelsAreNamed

LEMMA ElementOfSeq ==
    ASSUME NEW S, NEW s \in Seq(S), NEW i \in DOMAIN s
    PROVE  s[i] \in S
  OBVIOUS

LEMMA ReturnsType ==
    ASSUME RegistryTypeOK, NEW batch \in Batches, NEW ok \in BOOLEAN, Returns(batch, ok)
    PROVE  outcomes' \subseteq [batch : Batches, ok : BOOLEAN]
  <1>1. [batch |-> batch, ok |-> ok] \in [batch : Batches, ok : BOOLEAN]
    OBVIOUS
  <1> QED
    BY <1>1 DEF Returns, RegistryTypeOK

LEMMA RecordLockedType ==
    ASSUME RegistryTypeOK, RecordLocked
    PROVE  issues' \in Nat /\ revision' \in Nat /\ UNCHANGED <<drafts, components, webhooks>>
  BY DEF RecordLocked, RegistryTypeOK

LEMMA CallType ==
    ASSUME RegistryTypeOK, NEW c \in Clients, Call(c)
    PROVE  calls' \in [Clients -> 0 .. MaxCalls]
  BY RegistryAssumption DEF Call, RegistryTypeOK

LEMMA RegisterLockedType ==
    ASSUME RegistryTypeOK, NEW key \in Keys, NEW value \in Values, RegisterLocked(key, value)
    PROVE  /\ components' \in Batches
           /\ issues' \in Nat
           /\ revision' \in Nat
           /\ UNCHANGED <<drafts, webhooks>>
  <1> USE RegistryAssumption
  <1>1. CASE RecordLocked
    BY <1>1 DEF RecordLocked, RegistryTypeOK
  <1>2. CASE NothingChanges
    BY <1>2 DEF NothingChanges, RegistryTypeOK
  <1>3. CASE /\ ~Conflicts(key, value)
             /\ components' = [components EXCEPT ![key] = value]
             /\ Revise
             /\ UNCHANGED <<drafts, webhooks, issues>>
    <2>1. value \in Contents
      BY <1>3 DEF Conflicts, Values
    <2> QED
      BY <1>3, <2>1 DEF Revise, RegistryTypeOK, Batches
  <1> QED
    BY <1>1, <1>2, <1>3 DEF RegisterLocked

LEMMA WebhooksAfterType ==
    ASSUME RegistryTypeOK, NEW batch \in WebhookCalls, ~WebhookBatchInvalid(batch)
    PROVE  WebhooksAfter(batch) \in [WebhookKeys -> Contents \cup {Absent}]
  <1>1. batch \in Seq([key : WebhookKeys, value : Values])
    BY RegistryAssumption
  <1>2. ASSUME NEW i \in DOMAIN batch
        PROVE  batch[i].value \in Contents
    <2>1. batch[i] \in [key : WebhookKeys, value : Values]
      BY <1>1, ElementOfSeq
    <2> QED
      BY <2>1 DEF WebhookBatchInvalid, Values
  <1> SUFFICES ASSUME NEW k \in WebhookKeys
               PROVE  WebhooksAfter(batch)[k] \in Contents \cup {Absent}
    BY DEF WebhooksAfter
  <1>3. CASE \E i \in DOMAIN batch : batch[i].key = k
    <2> DEFINE i == CHOOSE i \in DOMAIN batch : batch[i].key = k
    <2>1. i \in DOMAIN batch
      BY <1>3
    <2>2. WebhooksAfter(batch)[k] = batch[i].value
      BY <1>3 DEF WebhooksAfter
    <2> QED
      BY <1>2, <2>1, <2>2
  <1>4. CASE ~\E i \in DOMAIN batch : batch[i].key = k
    BY <1>4 DEF WebhooksAfter, RegistryTypeOK
  <1> QED
    BY <1>3, <1>4

LEMMA IdleType == Idle \in Work
  BY DEF Idle, Work, Batches

LEMMA TypeInvStep == TypeInv /\ [RegistryNext]_registryVars => TypeInv'
  <1> SUFFICES ASSUME TypeInv, [RegistryNext]_registryVars
               PROVE  TypeInv'
    OBVIOUS
  <1> USE RegistryAssumption DEF TypeInv
  <1>1. ASSUME NEW c \in Clients, NEW r \in Routes \cup {NilRoute}, Route(c, r)
        PROVE  TypeInv'
    <2>0. calls' \in [Clients -> 0 .. MaxCalls] /\ UNCHANGED <<work, outcomes>>
      BY <1>1, CallType DEF Route
    <2>1. CASE r = NilRoute
      BY <1>1, <2>0, <2>1, RecordLockedType
         DEF Route, RegistryTypeOK, BuildersAreDocumented, ModelsAreNamed
    <2>2. CASE r \in Routes /\ drafts[r] = Undocumented
      <3>1. /\ drafts' = [drafts EXCEPT ![r] = EmptyDraft]
            /\ intended' = [intended EXCEPT ![r] = EmptyDraft]
            /\ builders' = builders \cup {r}
            /\ revision' = revision + 1
            /\ UNCHANGED <<components, webhooks, issues>>
        BY <1>1, <2>2 DEF Route, Revise
      <3>2. EmptyDraft # Undocumented
        BY EmptyDraftType
      <3> QED
        BY <2>0, <2>2, <3>1, <3>2, EmptyDraftType
           DEF RegistryTypeOK, BuildersAreDocumented, ModelsAreNamed
    <2>3. CASE r \in Routes /\ drafts[r] # Undocumented
      <3>1. /\ UNCHANGED <<drafts, components, webhooks, issues, revision, intended>>
            /\ builders' = builders \cup {r}
        BY <1>1, <2>3 DEF Route, NothingChanges
      <3>2. intended[r] # Undocumented
        BY <2>3 DEF BuildersAreDocumented, RegistryTypeOK
      <3> QED
        BY <2>0, <2>3, <3>1, <3>2
           DEF RegistryTypeOK, BuildersAreDocumented, ModelsAreNamed
    <2> QED
      BY <2>1, <2>2, <2>3
  <1>2. ASSUME NEW c \in Clients, NEW r \in Routes \cup {NilRoute},
               NEW call \in BuilderCalls, Update(c, r, call)
        PROVE  TypeInv'
    <2>0. /\ calls' \in [Clients -> 0 .. MaxCalls]
          /\ UNCHANGED <<builders, work, outcomes>>
      BY <1>2, CallType DEF Update
    <2>1. CASE r = NilRoute
      BY <1>2, <2>0, <2>1, RecordLockedType
         DEF Update, RegistryTypeOK, BuildersAreDocumented, ModelsAreNamed
    <2>2. CASE r \in Routes
      <3> DEFINE change == Change(drafts[r], call)
      <3>1. r \in builders /\ drafts[r] \in Drafts /\ intended[r] \in Drafts
        BY <1>2, <2>2 DEF Update, RegistryTypeOK, BuildersAreDocumented
      <3>2. change.draft \in Drafts /\ Change(intended[r], call).draft \in Drafts
        BY <3>1, ChangeType
      <3>3. /\ drafts' = [drafts EXCEPT ![r] = change.draft]
            /\ \/ intended' = [intended EXCEPT ![r] = Change(@, call).draft]
               \/ intended' = intended
            /\ issues' = IssuesAfter(change)
            /\ revision' = revision + 1
            /\ UNCHANGED <<components, webhooks>>
        BY <1>2, <2>2 DEF Update, Revise
      <3>4. issues' \in Nat
        BY <3>3 DEF IssuesAfter, RegistryTypeOK
      <3> HIDE DEF change
      <3>5. /\ drafts' \in [Routes -> Drafts \cup {Undocumented}]
            /\ \A other \in Routes : drafts[other] = Undocumented <=> drafts'[other] = Undocumented
        BY <2>2, <3>1, <3>2, <3>3 DEF RegistryTypeOK
      <3>6. /\ intended' \in [Routes -> Drafts \cup {Undocumented}]
            /\ \A other \in Routes : intended[other] = Undocumented <=> intended'[other] = Undocumented
        BY <2>2, <3>1, <3>2, <3>3 DEF RegistryTypeOK
      <3> QED
        BY <2>0, <3>3, <3>4, <3>5, <3>6
           DEF RegistryTypeOK, BuildersAreDocumented, ModelsAreNamed
    <2> QED
      BY <2>1, <2>2
  <1>3. ASSUME NEW c \in Clients, NEW call \in ComponentCalls, RegisterComponent(c, call)
        PROVE  TypeInv'
    <2> DEFINE batch == [k \in Keys |-> IF k = call.key /\ call.value # Invalid
                                        THEN call.value ELSE Absent]
               ok == ~Conflicts(call.key, call.value)
    <2>1. call.key \in Keys /\ call.value \in Values
      OBVIOUS
    <2>2. batch \in Batches
      BY <2>1 DEF Batches, Values
    <2>3. ok \in BOOLEAN
      BY DEF Conflicts
    <2>4. Returns(batch, ok)
      BY <1>3 DEF RegisterComponent
    <2>5. outcomes' \subseteq [batch : Batches, ok : BOOLEAN]
      <3> HIDE DEF batch, ok
      <3> QED
        BY <2>2, <2>3, <2>4, ReturnsType
    <2> QED
      BY <1>3, <2>1, <2>5, RegisterLockedType, CallType
         DEF RegisterComponent, RegistryTypeOK, BuildersAreDocumented, ModelsAreNamed
  <1>4. ASSUME NEW c \in Clients, NEW batch \in WebhookCalls, RegisterWebhooks(c, batch)
        PROVE  TypeInv'
    <2>1. calls' \in [Clients -> 0 .. MaxCalls] /\ UNCHANGED <<builders, work, history>>
      BY <1>4, CallType DEF RegisterWebhooks
    <2>2. CASE RecordLocked
      BY <1>4, <2>1, <2>2, RecordLockedType
         DEF RecordLocked, history, RegistryTypeOK, BuildersAreDocumented, ModelsAreNamed
    <2>3. CASE /\ ~WebhookBatchInvalid(batch)
               /\ webhooks' = WebhooksAfter(batch)
               /\ revision' = IF webhooks' = webhooks THEN revision ELSE revision + 1
               /\ UNCHANGED <<drafts, components, issues>>
      <3>1. webhooks' \in [WebhookKeys -> Contents \cup {Absent}] /\ revision' \in Nat
        BY <2>3, WebhooksAfterType DEF RegistryTypeOK
      <3> QED
        BY <2>1, <2>3, <3>1
           DEF history, RegistryTypeOK, BuildersAreDocumented, ModelsAreNamed
    <2> QED
      BY <1>4, <2>2, <2>3 DEF RegisterWebhooks
  <1>5. ASSUME NEW c \in Clients, NEW call \in ModelCalls, BeginModels(c, call)
        PROVE  TypeInv'
    <2> DEFINE begun == [active |-> TRUE, batch |-> call.batch, todo |-> Named(call.batch)]
    <2>0. /\ calls' \in [Clients -> 0 .. MaxCalls]
          /\ UNCHANGED <<builders, intended>>
      BY <1>5, CallType DEF BeginModels
    <2>1. call.batch \in Batches
      OBVIOUS
    <2>2. begun \in Work
      BY <2>1 DEF Named, Work
    <2>3. CASE ~call.derivable
      BY <1>5, <2>0, <2>1, <2>3, ReturnsType, RecordLockedType
         DEF BeginModels, RegistryTypeOK, BuildersAreDocumented, ModelsAreNamed
    <2>4. CASE call.derivable
      <3>1. work' = [work EXCEPT ![c] = begun]
        BY <1>5, <2>4 DEF BeginModels
      <3>2. work' \in [Clients -> Work]
        BY <2>2, <3>1 DEF RegistryTypeOK
      <3>3. ModelsAreNamed'
        BY <3>1 DEF ModelsAreNamed, Named, RegistryTypeOK
      <3> QED
        BY <1>5, <2>0, <2>4, <3>2, <3>3
           DEF BeginModels, NothingChanges, RegistryTypeOK, BuildersAreDocumented
    <2> QED
      BY <2>3, <2>4
  <1>6. ASSUME NEW c \in Clients, RegisterModel(c)
        PROVE  TypeInv'
    <2>0. PICK k \in work[c].todo :
             /\ RegisterLocked(k, work[c].batch[k])
             /\ \/ work' = [work EXCEPT ![c] = Idle] /\ Returns(work[c].batch, FALSE)
                \/ work' = [work EXCEPT ![c].todo = @ \ {k}] /\ UNCHANGED outcomes
      BY <1>6 DEF RegisterModel
    <2>1. /\ work[c] \in Work
          /\ work[c].batch \in Batches
          /\ k \in Keys
          /\ work[c].batch[k] \in Values
      BY DEF RegistryTypeOK, Work, ModelsAreNamed, Named, Batches, Values
    <2>2. /\ components' \in Batches
          /\ issues' \in Nat
          /\ revision' \in Nat
          /\ UNCHANGED <<drafts, webhooks>>
      BY <2>0, <2>1, RegisterLockedType
    <2>3. outcomes' \subseteq [batch : Batches, ok : BOOLEAN]
      BY <2>0, <2>1, ReturnsType DEF RegistryTypeOK
    <2>4. work' \in [Clients -> Work] /\ ModelsAreNamed'
      <3>1. CASE work' = [work EXCEPT ![c] = Idle]
        BY <3>1, IdleType DEF RegistryTypeOK, Idle, ModelsAreNamed
      <3>2. CASE work' = [work EXCEPT ![c].todo = @ \ {k}]
        <4>1. work'[c] = [work[c] EXCEPT !.todo = @ \ {k}]
          BY <3>2 DEF RegistryTypeOK
        <4>2. work'[c] \in Work /\ work'[c].todo \subseteq Named(work'[c].batch)
          BY <2>1, <4>1 DEF Work, ModelsAreNamed
        <4> QED
          BY <3>2, <4>2 DEF RegistryTypeOK, ModelsAreNamed
      <3> QED
        BY <2>0, <3>1, <3>2
    <2> QED
      BY <1>6, <2>2, <2>3, <2>4 DEF RegisterModel, RegistryTypeOK, BuildersAreDocumented
  <1>7. ASSUME NEW c \in Clients, ReturnModels(c)
        PROVE  TypeInv'
    <2>1. work[c].batch \in Batches
      BY DEF RegistryTypeOK, Work
    <2>2. work' \in [Clients -> Work] /\ ModelsAreNamed'
      BY <1>7, IdleType DEF ReturnModels, RegistryTypeOK, Idle, ModelsAreNamed
    <2>3. outcomes' \subseteq [batch : Batches, ok : BOOLEAN]
      BY <1>7, <2>1, ReturnsType DEF ReturnModels
    <2> QED
      BY <1>7, <2>2, <2>3
         DEF ReturnModels, NothingChanges, RegistryTypeOK, BuildersAreDocumented
  <1>8. CASE UNCHANGED registryVars
    BY <1>8 DEF registryVars, registryState, history, RegistryTypeOK,
                BuildersAreDocumented, ModelsAreNamed
  <1> QED
    BY <1>1, <1>2, <1>3, <1>4, <1>5, <1>6, <1>7, <1>8 DEF RegistryNext

LEMMA TypeInvInit == RegistryInit => TypeInv
  BY RegistryAssumption, IdleType
     DEF RegistryInit, TypeInv, RegistryTypeOK, BuildersAreDocumented, ModelsAreNamed,
         Idle, Batches

LEMMA TypeInvAlways == RegistrySpec => []TypeInv
  BY TypeInvInit, TypeInvStep, PTL DEF RegistrySpec

(***************************************************************************)
(* The registry's state keeps its type, whatever clients register: in     *)
(* particular update always finds a draft behind an attached builder.     *)
(***************************************************************************)
THEOREM RegistryTypeCorrect == RegistrySpec => []RegistryTypeOK
  <1>1. TypeInv => RegistryTypeOK
    BY DEF TypeInv
  <1> QED
    BY <1>1, TypeInvAlways, PTL

-----------------------------------------------------------------------------
(***************************************************************************)
(* Revisions and content only move forward.                               *)
(***************************************************************************)
Forward == RevisionAdvances /\ WrittenOnce

LEMMA RecordLockedForward ==
    ASSUME RegistryTypeOK, RecordLocked
    PROVE  Forward
  BY DEF Forward, RecordLocked, RegistryTypeOK, RevisionAdvances, WrittenOnce

LEMMA NothingForward ==
    ASSUME RegistryTypeOK, UNCHANGED <<drafts, components, webhooks, issues, revision>>
    PROVE  Forward
  BY DEF Forward, RegistryTypeOK, RevisionAdvances, WrittenOnce, Content

LEMMA RegisterLockedForward ==
    ASSUME RegistryTypeOK, NEW key \in Keys, NEW value \in Values, RegisterLocked(key, value)
    PROVE  Forward
  <1>1. CASE RecordLocked
    BY <1>1, RecordLockedForward
  <1>2. CASE NothingChanges
    BY <1>2, NothingForward DEF NothingChanges
  <1>3. CASE /\ components[key] = Absent
             /\ components' = [components EXCEPT ![key] = value]
             /\ Revise
             /\ UNCHANGED <<drafts, webhooks, issues>>
    BY <1>3 DEF Revise, Forward, RegistryTypeOK, Batches, RevisionAdvances, WrittenOnce
  <1> QED
    BY <1>1, <1>2, <1>3 DEF RegisterLocked

\* A webhook that is already registered is in the batch with the same content.
LEMMA WebhooksAfterKeeps ==
    ASSUME NEW batch \in WebhookCalls, ~WebhookConflicts(batch),
           NEW k \in WebhookKeys, webhooks[k] # Absent
    PROVE  WebhooksAfter(batch)[k] = webhooks[k]
  <1>1. CASE \E i \in DOMAIN batch : batch[i].key = k
    <2> DEFINE i == CHOOSE i \in DOMAIN batch : batch[i].key = k
    <2>1. i \in DOMAIN batch /\ batch[i].key = k
      BY <1>1
    <2>2. WebhooksAfter(batch)[k] = batch[i].value
      BY <1>1 DEF WebhooksAfter
    <2> QED
      BY <2>1, <2>2 DEF WebhookConflicts
  <1>2. CASE ~\E i \in DOMAIN batch : batch[i].key = k
    BY <1>2 DEF WebhooksAfter
  <1> QED
    BY <1>1, <1>2

LEMMA ForwardStep == TypeInv /\ [RegistryNext]_registryVars => Forward
  <1> SUFFICES ASSUME TypeInv, [RegistryNext]_registryVars
               PROVE  Forward
    OBVIOUS
  <1> USE RegistryAssumption DEF TypeInv
  <1>1. ASSUME NEW c \in Clients, NEW r \in Routes \cup {NilRoute}, Route(c, r)
        PROVE  Forward
    <2>1. CASE RecordLocked
      BY <2>1, RecordLockedForward
    <2>2. CASE NothingChanges
      BY <2>2, NothingForward DEF NothingChanges
    <2>3. CASE Revise /\ UNCHANGED <<components, webhooks, issues>>
      BY <2>3 DEF Revise, Forward, RegistryTypeOK, RevisionAdvances, WrittenOnce
    <2> QED
      BY <1>1, <2>1, <2>2, <2>3 DEF Route
  <1>2. ASSUME NEW c \in Clients, NEW r \in Routes \cup {NilRoute},
               NEW call \in BuilderCalls, Update(c, r, call)
        PROVE  Forward
    <2>1. CASE RecordLocked
      BY <2>1, RecordLockedForward
    <2>2. CASE /\ issues' = IssuesAfter(Change(drafts[r], call))
               /\ Revise
               /\ UNCHANGED <<components, webhooks>>
      BY <2>2 DEF IssuesAfter, Revise, Forward, RegistryTypeOK, RevisionAdvances, WrittenOnce
    <2> QED
      BY <1>2, <2>1, <2>2 DEF Update
  <1>3. ASSUME NEW c \in Clients, NEW call \in ComponentCalls, RegisterComponent(c, call)
        PROVE  Forward
    BY <1>3, RegisterLockedForward DEF RegisterComponent
  <1>4. ASSUME NEW c \in Clients, NEW batch \in WebhookCalls, RegisterWebhooks(c, batch)
        PROVE  Forward
    <2>1. CASE RecordLocked
      BY <2>1, RecordLockedForward
    <2>2. CASE /\ ~WebhookConflicts(batch)
               /\ webhooks' = WebhooksAfter(batch)
               /\ revision' = IF webhooks' = webhooks THEN revision ELSE revision + 1
               /\ UNCHANGED <<drafts, components, issues>>
      <3>1. \A k \in WebhookKeys : webhooks[k] # Absent => webhooks'[k] = webhooks[k]
        BY <2>2, WebhooksAfterKeeps
      <3> QED
        BY <2>2, <3>1 DEF Forward, RegistryTypeOK, RevisionAdvances, WrittenOnce, Content
    <2> QED
      BY <1>4, <2>1, <2>2 DEF RegisterWebhooks
  <1>5. ASSUME NEW c \in Clients, NEW call \in ModelCalls, BeginModels(c, call)
        PROVE  Forward
    BY <1>5, RecordLockedForward, NothingForward DEF BeginModels, NothingChanges
  <1>6. ASSUME NEW c \in Clients, RegisterModel(c)
        PROVE  Forward
    <2>0. PICK k \in work[c].todo : RegisterLocked(k, work[c].batch[k])
      BY <1>6 DEF RegisterModel
    <2>1. k \in Keys /\ work[c].batch[k] \in Values
      BY DEF RegistryTypeOK, Work, ModelsAreNamed, Named, Batches, Values
    <2> QED
      BY <2>0, <2>1, RegisterLockedForward
  <1>7. ASSUME NEW c \in Clients, ReturnModels(c)
        PROVE  Forward
    BY <1>7, NothingForward DEF ReturnModels, NothingChanges
  <1>8. CASE UNCHANGED registryVars
    BY <1>8, NothingForward DEF registryVars, registryState
  <1> QED
    BY <1>1, <1>2, <1>3, <1>4, <1>5, <1>6, <1>7, <1>8 DEF RegistryNext

(***************************************************************************)
(* The revision never decreases, and advances with every change a         *)
(* generation can see: what the specification cache relies on.            *)
(***************************************************************************)
THEOREM RevisionNamesContent == RegistrySpec => RevisionTracksContent
  <1>1. TypeInv /\ [RegistryNext]_registryVars => [RevisionAdvances]_registryVars
    BY ForwardStep DEF Forward
  <1> QED
    BY <1>1, TypeInvAlways, PTL DEF RegistrySpec, RevisionTracksContent

(***************************************************************************)
(* No registration ever replaces or removes a component or a webhook, and *)
(* no recorded error is forgotten.                                        *)
(***************************************************************************)
THEOREM ContentIsWrittenOnce == RegistrySpec => WriteOnce
  <1>1. TypeInv /\ [RegistryNext]_registryVars => [WrittenOnce]_registryVars
    BY ForwardStep DEF Forward
  <1> QED
    BY <1>1, TypeInvAlways, PTL DEF RegistrySpec, WriteOnce

-----------------------------------------------------------------------------
(***************************************************************************)
(* OutcomesAreBinding is not inductive: when Models returns nil, that its *)
(* names hold its content follows from the registrations it made one by   *)
(* one.  The missing part says so of a call still under way.              *)
(***************************************************************************)
ModelsAreRegistered ==
    \A c \in Clients : \A k \in Named(work[c].batch) \ work[c].todo :
       components[k] = work[c].batch[k]

BindingInv == TypeInv /\ OutcomesAreBinding /\ ModelsAreRegistered

\* What holds of a batch stays true in a step that only writes new names.
LEMMA NamesStay ==
    ASSUME WrittenOnce, NEW batch, NEW names \in SUBSET Named(batch),
           \A k \in names : components[k] = batch[k]
    PROVE  \A k \in names : components'[k] = batch[k]
  BY DEF WrittenOnce, Named

LEMMA OutcomesStay ==
    ASSUME TypeInv, TypeInv', OutcomesAreBinding, Forward
    PROVE  \A o \in outcomes :
              IF o.ok THEN \A k \in Named(o.batch) : components'[k] = o.batch[k]
                      ELSE issues' > 0
  <1> SUFFICES ASSUME NEW o \in outcomes
               PROVE  IF o.ok THEN \A k \in Named(o.batch) : components'[k] = o.batch[k]
                              ELSE issues' > 0
    OBVIOUS
  <1>1. o.ok \in BOOLEAN
    BY DEF TypeInv, RegistryTypeOK
  <1>2. CASE o.ok
    BY <1>2, NamesStay DEF OutcomesAreBinding, Forward
  <1>3. CASE ~o.ok
    <2>1. issues > 0 /\ issues' >= issues
      BY <1>3 DEF OutcomesAreBinding, Forward, WrittenOnce
    <2>2. issues \in Nat /\ issues' \in Nat
      BY DEF TypeInv, RegistryTypeOK
    <2> QED
      BY <1>3, <2>1, <2>2
  <1> QED
    BY <1>1, <1>2, <1>3

LEMMA WorkStays ==
    ASSUME ModelsAreRegistered, Forward, UNCHANGED work
    PROVE  ModelsAreRegistered'
  <1> SUFFICES ASSUME NEW c \in Clients
               PROVE  \A k \in Named(work[c].batch) \ work[c].todo :
                         components'[k] = work[c].batch[k]
    BY DEF ModelsAreRegistered, Named
  <1> QED
    BY NamesStay DEF ModelsAreRegistered, Forward

\* A registration that reports no conflict leaves its content under its name.
LEMMA RegisterLockedResult ==
    ASSUME RegistryTypeOK, NEW key \in Keys, NEW value \in Values, RegisterLocked(key, value)
    PROVE  /\ ~Conflicts(key, value) => components'[key] = value
           /\ Conflicts(key, value) => issues' > 0
  <1>1. ASSUME ~Conflicts(key, value) PROVE components'[key] = value
    BY <1>1 DEF RegisterLocked, NothingChanges, RegistryTypeOK, Batches
  <1>2. ASSUME Conflicts(key, value) PROVE issues' > 0
    BY <1>2 DEF RegisterLocked, RecordLocked, RegistryTypeOK
  <1> QED
    BY <1>1, <1>2

\* A new outcome has only to be shown binding itself.
LEMMA NewOutcome ==
    ASSUME TypeInv, TypeInv', OutcomesAreBinding, Forward, NEW batch, NEW ok \in BOOLEAN,
           Returns(batch, ok),
           ok => \A k \in Named(batch) : components'[k] = batch[k],
           ~ok => issues' > 0
    PROVE  OutcomesAreBinding'
  BY OutcomesStay DEF OutcomesAreBinding, Returns, Named

LEMMA BindingStep == BindingInv /\ [RegistryNext]_registryVars => BindingInv'
  <1> SUFFICES ASSUME BindingInv, [RegistryNext]_registryVars
               PROVE  OutcomesAreBinding' /\ ModelsAreRegistered'
    BY TypeInvStep DEF BindingInv
  <1> USE RegistryAssumption
  <1>0. TypeInv /\ TypeInv' /\ OutcomesAreBinding /\ ModelsAreRegistered /\ Forward
    BY ForwardStep, TypeInvStep DEF BindingInv
  <1>t. RegistryTypeOK
    BY <1>0 DEF TypeInv
  <1>1. CASE UNCHANGED <<work, outcomes>>
    BY <1>0, <1>1, OutcomesStay, WorkStays DEF OutcomesAreBinding, Named
  <1>2. ASSUME NEW c \in Clients, NEW call \in ComponentCalls, RegisterComponent(c, call)
        PROVE  OutcomesAreBinding' /\ ModelsAreRegistered'
    <2> DEFINE batch == [k \in Keys |-> IF k = call.key /\ call.value # Invalid
                                        THEN call.value ELSE Absent]
               ok == ~Conflicts(call.key, call.value)
    <2>1. call.key \in Keys /\ call.value \in Values
      OBVIOUS
    <2>2. RegisterLocked(call.key, call.value) /\ Returns(batch, ok) /\ UNCHANGED work
      BY <1>2 DEF RegisterComponent
    <2>3. ok \in BOOLEAN
      BY DEF Conflicts
    <2>4. Named(batch) \subseteq {call.key}
      BY DEF Named
    <2>5. ASSUME ok PROVE \A k \in Named(batch) : components'[k] = batch[k]
      BY <1>t, <2>1, <2>2, <2>4, <2>5, RegisterLockedResult DEF Conflicts
    <2>6. ASSUME ~ok PROVE issues' > 0
      BY <1>t, <2>1, <2>2, <2>6, RegisterLockedResult
    <2> HIDE DEF batch, ok
    <2> QED
      BY <1>0, <2>2, <2>3, <2>5, <2>6, NewOutcome, WorkStays
  <1>3. ASSUME NEW c \in Clients, NEW call \in ModelCalls, BeginModels(c, call)
        PROVE  OutcomesAreBinding' /\ ModelsAreRegistered'
    <2>1. CASE ~call.derivable
      <3>1. RecordLocked /\ Returns(call.batch, FALSE) /\ UNCHANGED work
        BY <1>3, <2>1 DEF BeginModels
      <3>2. issues' > 0
        BY <1>t, <3>1 DEF RecordLocked, RegistryTypeOK
      <3> QED
        BY <1>0, <3>1, <3>2, NewOutcome, WorkStays
    <2>2. CASE call.derivable
      <3>1. /\ work' = [work EXCEPT ![c] = [active |-> TRUE, batch |-> call.batch,
                                            todo |-> Named(call.batch)]]
            /\ UNCHANGED <<components, outcomes, issues>>
        BY <1>3, <2>2 DEF BeginModels, NothingChanges
      <3>2. ModelsAreRegistered'
        BY <1>0, <1>t, <3>1 DEF ModelsAreRegistered, Named, RegistryTypeOK
      <3> QED
        BY <1>0, <3>1, <3>2 DEF OutcomesAreBinding, Named
    <2> QED
      BY <2>1, <2>2
  <1>4. ASSUME NEW c \in Clients, RegisterModel(c)
        PROVE  OutcomesAreBinding' /\ ModelsAreRegistered'
    <2>0. PICK k \in work[c].todo :
             /\ RegisterLocked(k, work[c].batch[k])
             /\ \/ /\ Conflicts(k, work[c].batch[k])
                   /\ work' = [work EXCEPT ![c] = Idle]
                   /\ Returns(work[c].batch, FALSE)
                \/ /\ ~Conflicts(k, work[c].batch[k])
                   /\ work' = [work EXCEPT ![c].todo = @ \ {k}]
                   /\ UNCHANGED outcomes
      BY <1>4 DEF RegisterModel
    <2>1. work[c] \in Work /\ k \in Keys /\ work[c].batch[k] \in Values
      BY <1>0 DEF TypeInv, RegistryTypeOK, Work, ModelsAreNamed, Named, Batches, Values
    <2>2. \A other \in Clients : \A n \in Named(work[other].batch) \ work[other].todo :
             components'[n] = work[other].batch[n]
      BY <1>0, NamesStay DEF ModelsAreRegistered, Forward
    <2>3. CASE Conflicts(k, work[c].batch[k])
      <3>1. work' = [work EXCEPT ![c] = Idle] /\ Returns(work[c].batch, FALSE)
        BY <2>0, <2>3
      <3>2. issues' > 0
        BY <1>t, <2>0, <2>1, <2>3, RegisterLockedResult
      <3>3. ModelsAreRegistered'
        BY <1>t, <2>2, <3>1 DEF ModelsAreRegistered, RegistryTypeOK, Idle, Named
      <3> QED
        BY <1>0, <3>1, <3>2, <3>3, NewOutcome
    <2>4. CASE ~Conflicts(k, work[c].batch[k])
      <3>1. work' = [work EXCEPT ![c].todo = @ \ {k}] /\ UNCHANGED outcomes
        BY <2>0, <2>4
      <3>2. components'[k] = work[c].batch[k]
        BY <1>t, <2>0, <2>1, <2>4, RegisterLockedResult
      <3>3. work'[c].batch = work[c].batch /\ work'[c].todo = work[c].todo \ {k}
        BY <1>t, <2>1, <3>1 DEF RegistryTypeOK, Work
      <3>4. \A other \in Clients \ {c} : work'[other] = work[other]
        BY <1>t, <3>1 DEF RegistryTypeOK
      <3>5. ModelsAreRegistered'
        BY <2>2, <3>2, <3>3, <3>4 DEF ModelsAreRegistered, Named
      <3> QED
        BY <1>0, <3>1, <3>5, OutcomesStay DEF OutcomesAreBinding, Named
    <2> QED
      BY <2>3, <2>4 DEF Conflicts
  <1>5. ASSUME NEW c \in Clients, ReturnModels(c)
        PROVE  OutcomesAreBinding' /\ ModelsAreRegistered'
    <2>1. /\ work[c].todo = {}
          /\ work' = [work EXCEPT ![c] = Idle]
          /\ Returns(work[c].batch, TRUE)
          /\ UNCHANGED <<components, issues>>
      BY <1>5 DEF ReturnModels, NothingChanges
    <2>2. \A k \in Named(work[c].batch) : components'[k] = work[c].batch[k]
      BY <1>0, <2>1 DEF ModelsAreRegistered
    <2>3. ModelsAreRegistered'
      BY <1>0, <1>t, <2>1 DEF ModelsAreRegistered, RegistryTypeOK, Idle, Named
    <2> QED
      BY <1>0, <2>1, <2>2, <2>3, NewOutcome
  <1> QED
    BY <1>1, <1>2, <1>3, <1>4, <1>5
       DEF RegistryNext, Route, Update, RegisterWebhooks, registryVars, history

(***************************************************************************)
(* A nil from a component or a Models registration is a promise kept from *)
(* then on, and an error leaves an issue behind, for every interleaving of*)
(* any number of clients.                                                 *)
(***************************************************************************)
THEOREM OutcomesBind == RegistrySpec => []OutcomesAreBinding
  <1>1. RegistryInit => BindingInv
    BY TypeInvInit
       DEF RegistryInit, BindingInv, OutcomesAreBinding, ModelsAreRegistered, Idle, Named
  <1>2. BindingInv => OutcomesAreBinding
    BY DEF BindingInv
  <1> QED
    BY <1>1, <1>2, BindingStep, PTL DEF RegistrySpec

-----------------------------------------------------------------------------
LEMMA RejectedStep ==
    TypeInv /\ RejectedChangesNeverPublished /\ [RegistryNext]_registryVars
        => RejectedChangesNeverPublished'
  <1> SUFFICES ASSUME TypeInv, RejectedChangesNeverPublished, [RegistryNext]_registryVars,
                      issues' = 0
               PROVE  drafts' = intended'
    BY DEF RejectedChangesNeverPublished
  <1>0. drafts = intended
    <2>1. issues \in Nat /\ issues' >= issues
      BY ForwardStep DEF Forward, WrittenOnce, TypeInv, RegistryTypeOK
    <2> QED
      BY <2>1 DEF RejectedChangesNeverPublished
  <1>1. CASE UNCHANGED <<drafts, intended>>
    BY <1>0, <1>1
  <1>2. ASSUME NEW c \in Clients, NEW r \in Routes \cup {NilRoute}, Route(c, r)
        PROVE  drafts' = intended'
    BY <1>0, <1>2 DEF Route, RecordLocked, NothingChanges
  <1>3. ASSUME NEW c \in Clients, NEW r \in Routes \cup {NilRoute},
               NEW call \in BuilderCalls, Update(c, r, call)
        PROVE  drafts' = intended'
    <2>1. CASE r = NilRoute /\ RecordLocked /\ UNCHANGED intended
      BY <1>0, <2>1 DEF RecordLocked
    <2>2. CASE r \in Routes
      <3> DEFINE change == Change(drafts[r], call)
      <3>1. issues' = IssuesAfter(change)
        BY <1>3, <2>2, RegistryAssumption DEF Update
      <3>2. change.ok
        BY <3>1 DEF IssuesAfter, TypeInv, RegistryTypeOK
      <3>3. /\ drafts' = [drafts EXCEPT ![r] = change.draft]
            /\ intended' = [intended EXCEPT ![r] = Change(intended[r], call).draft]
        BY <1>3, <2>2, <3>2, RegistryAssumption DEF Update
      <3> QED
        BY <1>0, <3>3
    <2> QED
      BY <1>3, <2>1, <2>2 DEF Update
  <1> QED
    BY <1>1, <1>2, <1>3
       DEF RegistryNext, RegisterComponent, RegisterLocked, RegisterWebhooks, BeginModels,
           RegisterModel, ReturnModels, RecordLocked, NothingChanges, registryVars,
           registryState, history

(***************************************************************************)
(* Whatever half-written changes builders refuse, no draft that differs   *)
(* from what the accepted changes make is ever generated from: a refusal  *)
(* leaves an issue, and generation fails while there is one.              *)
(***************************************************************************)
THEOREM RejectedNeverPublished == RegistrySpec => []RejectedChangesNeverPublished
  <1>1. RegistryInit => RejectedChangesNeverPublished
    BY DEF RegistryInit, RejectedChangesNeverPublished
  <1> QED
    BY <1>1, RejectedStep, TypeInvAlways, PTL DEF RegistrySpec

LEMMA WholeBatchStep == TypeInv /\ [RegistryNext]_registryVars => WholeBatch
  <1> SUFFICES ASSUME TypeInv, [RegistryNext]_registryVars, webhooks' # webhooks
               PROVE  WholeBatch
    BY DEF WholeBatch
  <1>0. RegistryNext
    BY DEF registryVars, registryState
  <1>1. PICK c \in Clients, batch \in WebhookCalls : RegisterWebhooks(c, batch)
    <2>1. PICK c \in Clients :
              \/ \E r \in Routes \cup {NilRoute} : Route(c, r)
              \/ \E r \in Routes \cup {NilRoute}, call \in BuilderCalls : Update(c, r, call)
              \/ \E call \in ComponentCalls : RegisterComponent(c, call)
              \/ \E batch \in WebhookCalls : RegisterWebhooks(c, batch)
              \/ \E call \in ModelCalls : BeginModels(c, call)
              \/ RegisterModel(c)
              \/ ReturnModels(c)
      BY <1>0 DEF RegistryNext
    <2>2. ASSUME NEW r, Route(c, r)
          PROVE  FALSE
      BY <2>2 DEF Route, RecordLocked, Revise, NothingChanges, registryState
    <2>3. \A r, call : ~Update(c, r, call)
      BY DEF Update, RecordLocked, NothingChanges, registryState
    <2>4. \A call : ~RegisterComponent(c, call) /\ ~BeginModels(c, call)
      BY DEF RegisterComponent, BeginModels, RegisterLocked, RecordLocked, NothingChanges, registryState
    <2>5. ~RegisterModel(c) /\ ~ReturnModels(c)
      BY DEF RegisterModel, ReturnModels, RegisterLocked, RecordLocked, NothingChanges, registryState
    <2> QED
      BY <2>1, <2>2, <2>3, <2>4, <2>5
  <1>2. ~WebhookBatchInvalid(batch) /\ webhooks' = WebhooksAfter(batch)
    BY <1>1 DEF RegisterWebhooks, RecordLocked
  <1>3. batch \in Seq([key : WebhookKeys, value : Values])
    BY RegistryAssumption
  <1>4. ASSUME NEW i \in DOMAIN batch
        PROVE  webhooks'[batch[i].key] = batch[i].value
    <2>0. batch[i] \in [key : WebhookKeys, value : Values]
      BY <1>3, ElementOfSeq
    <2>1. batch[i].key \in WebhookKeys
      BY <2>0
    <2> DEFINE j == CHOOSE j \in DOMAIN batch : batch[j].key = batch[i].key
    <2>2. j \in DOMAIN batch /\ batch[j].key = batch[i].key
      OBVIOUS
    <2>3. j = i
      BY <1>2, <2>2 DEF WebhookBatchInvalid
    <2> QED
      BY <1>2, <2>1, <2>3 DEF WebhooksAfter
  <1>5. ASSUME NEW k \in WebhookKeys, \A i \in DOMAIN batch : batch[i].key # k
        PROVE  webhooks'[k] = webhooks[k]
    BY <1>2, <1>5 DEF WebhooksAfter
  <1>6. \A k \in WebhookKeys : webhooks[k] # Absent => webhooks'[k] = webhooks[k]
    BY ForwardStep DEF Forward, WrittenOnce
  <1> QED
    BY <1>4, <1>5, <1>6 DEF WholeBatch

(***************************************************************************)
(* A batch of webhooks appears as a whole, with nothing else replaced.    *)
(***************************************************************************)
THEOREM WebhookBatchesWhole == RegistrySpec => WebhookBatchesAreWhole
  BY WholeBatchStep, TypeInvAlways, PTL DEF RegistrySpec, WebhookBatchesAreWhole

-----------------------------------------------------------------------------
(***************************************************************************)
(* Among the Models calls at work, one is ahead of the others: it has     *)
(* still to register only names beyond every registered one, so no        *)
(* registration is in its way.  It exists as long as no call returned nil.*)
(***************************************************************************)
Filled == {k \in Keys : components[k] # Absent}

Leads(c) == work[c].active /\ \A k \in Filled, t \in work[c].todo : k < t

LeaderInv == Filled # {} => (\E o \in outcomes : o.ok) \/ \E c \in Clients : Leads(c)

\* What an accepted registration fills, and what a refused one finds filled.
LEMMA RegisterLockedFills ==
    ASSUME RegistryTypeOK, NEW key \in Keys, NEW value \in Values, RegisterLocked(key, value)
    PROVE  /\ Conflicts(key, value) => Filled' = Filled
           /\ ~Conflicts(key, value) => Filled' = Filled \cup {key}
           /\ Conflicts(key, value) /\ value # Invalid => key \in Filled
  <1>1. ASSUME Conflicts(key, value) PROVE Filled' = Filled
    BY <1>1 DEF RegisterLocked, RecordLocked, Filled
  <1>2. ASSUME ~Conflicts(key, value) PROVE Filled' = Filled \cup {key}
    <2>1. value # Absent
      BY RegistryAssumption
    <2>2. CASE components[key] = value /\ NothingChanges
      BY <2>1, <2>2 DEF NothingChanges, Filled
    <2>3. CASE components' = [components EXCEPT ![key] = value]
      BY <2>1, <2>3 DEF Filled, RegistryTypeOK, Batches
    <2> QED
      BY <1>2, <2>2, <2>3 DEF RegisterLocked
  <1>3. ASSUME Conflicts(key, value), value # Invalid PROVE key \in Filled
    BY <1>3 DEF Conflicts, Filled
  <1> QED
    BY <1>1, <1>2, <1>3

LEMMA LeaderStep == TypeInv /\ LeaderInv /\ [RegistryNext]_registryVars => LeaderInv'
  <1> SUFFICES ASSUME TypeInv, LeaderInv, [RegistryNext]_registryVars
               PROVE  LeaderInv'
    OBVIOUS
  <1> USE RegistryAssumption
  <1>t. RegistryTypeOK /\ ModelsAreNamed
    BY DEF TypeInv
  <1>o. outcomes \subseteq outcomes'
    BY DEF RegistryNext, Route, Update, RegisterComponent, RegisterWebhooks, BeginModels,
           RegisterModel, ReturnModels, Returns, registryVars, history
  <1>1. CASE UNCHANGED <<work, components>>
    BY <1>1, <1>o DEF LeaderInv, Filled, Leads
  <1>2. ASSUME NEW c \in Clients, NEW call \in ComponentCalls, RegisterComponent(c, call)
        PROVE  LeaderInv'
    <2>1. /\ call.key \in Keys /\ call.value \in Values
          /\ RegisterLocked(call.key, call.value)
          /\ UNCHANGED work
      BY <1>2 DEF RegisterComponent
    <2>2. CASE Conflicts(call.key, call.value)
      <3>1. Filled' = Filled
        BY <1>t, <2>1, <2>2, RegisterLockedFills
      <3> QED
        BY <1>o, <2>1, <3>1 DEF LeaderInv, Leads
    <2>3. CASE ~Conflicts(call.key, call.value)
      <3> DEFINE o == [batch |-> [k \in Keys |-> IF k = call.key /\ call.value # Invalid
                                                 THEN call.value ELSE Absent],
                       ok |-> ~Conflicts(call.key, call.value)]
      <3>0. o \in outcomes' /\ o.ok
        BY <1>2, <2>3 DEF RegisterComponent, Returns
      <3>1. \E p \in outcomes' : p.ok
        BY <3>0
      <3> QED
        BY <3>1 DEF LeaderInv
    <2> QED
      BY <2>2, <2>3
  <1>3. ASSUME NEW c \in Clients, NEW call \in ModelCalls, BeginModels(c, call)
        PROVE  LeaderInv'
    <2>1. Filled' = Filled /\ ~work[c].active
      BY <1>3 DEF BeginModels, RecordLocked, NothingChanges, Filled, Call
    <2>2. \A other \in Clients \ {c} : work'[other] = work[other]
      BY <1>3, <1>t DEF BeginModels, RegistryTypeOK
    <2>3. \A other \in Clients : Leads(other) => Leads(other)'
      BY <2>1, <2>2 DEF Leads
    <2> QED
      BY <1>o, <2>1, <2>3 DEF LeaderInv
  <1>4. ASSUME NEW c \in Clients, RegisterModel(c)
        PROVE  LeaderInv'
    <2>0. PICK k \in work[c].todo :
             /\ NextModel(c, k)
             /\ RegisterLocked(k, work[c].batch[k])
             /\ \/ /\ Conflicts(k, work[c].batch[k])
                   /\ work' = [work EXCEPT ![c] = Idle]
                \/ /\ ~Conflicts(k, work[c].batch[k])
                   /\ work' = [work EXCEPT ![c].todo = @ \ {k}]
      BY <1>4 DEF RegisterModel
    <2>1. work[c] \in Work /\ k \in Keys /\ work[c].batch[k] \in Values /\ work[c].active
      BY <1>4, <1>t DEF RegistryTypeOK, Work, ModelsAreNamed, Named, Batches, Values,
                        RegisterModel
    <2>2. work[c].batch[k] # Invalid
      BY <1>t, <2>1 DEF RegistryTypeOK, Work, Batches, ModelsAreNamed, Named
    <2>3. \A other \in Clients : work[other].todo \subseteq Keys
      BY <1>t DEF RegistryTypeOK, Work
    <2>4. \A t \in work[c].todo \ {k} : k < t
      BY <2>0, <2>1, <2>3 DEF NextModel
    <2>5. CASE Conflicts(k, work[c].batch[k])
      <3>1. Filled' = Filled /\ k \in Filled
        BY <1>t, <2>0, <2>1, <2>2, <2>5, RegisterLockedFills
      <3>2. ~Leads(c)
        BY <2>0, <2>1, <3>1 DEF Leads
      <3>3. \A other \in Clients \ {c} : work'[other] = work[other]
        BY <1>t, <2>0, <2>5 DEF RegistryTypeOK
      <3>4. \A other \in Clients : Leads(other) => Leads(other)'
        BY <3>1, <3>2, <3>3 DEF Leads
      <3> QED
        BY <1>o, <3>1, <3>4 DEF LeaderInv
    <2>6. CASE ~Conflicts(k, work[c].batch[k])
      <3>1. Filled' = Filled \cup {k}
        BY <1>t, <2>0, <2>1, <2>6, RegisterLockedFills
      <3>2. /\ work'[c].active /\ work'[c].todo = work[c].todo \ {k}
            /\ \A other \in Clients \ {c} : work'[other] = work[other]
        BY <1>t, <2>0, <2>1, <2>6 DEF RegistryTypeOK, Work
      <3>3. ASSUME Leads(c) PROVE Leads(c)'
        BY <2>4, <3>1, <3>2, <3>3 DEF Leads
      <3>4. ASSUME NEW f \in Clients, Leads(f), f # c PROVE Leads(f)' \/ Leads(c)'
        <4>1. CASE \A t \in work[f].todo : k < t
          BY <3>1, <3>2, <3>4, <4>1 DEF Leads
        <4>2. CASE \E t \in work[f].todo : ~(k < t)
          <5>1. PICK t \in work[f].todo : ~(k < t)
            BY <4>2
          <5>0. t \in Keys
            BY <2>3, <3>4, <5>1
          <5>2. t \in Nat /\ k \in Nat /\ t <= k
            <6>1. t \in Nat /\ k \in Nat
              BY <2>1, <5>0
            <6> QED
              BY <5>1, <6>1
          <5>3. \A n \in Filled : n \in Nat /\ n < t
            BY <3>4, <5>1 DEF Leads, Filled
          <5>4. \A n \in Filled', u \in work[c].todo \ {k} : n < u
            <6> SUFFICES ASSUME NEW n \in Filled', NEW u \in work[c].todo \ {k}
                         PROVE  n < u
              OBVIOUS
            <6>1. u \in Nat /\ k < u
              BY <2>3, <2>4
            <6>2. CASE n \in Filled
              BY <5>2, <5>3, <6>1, <6>2
            <6>3. CASE n = k
              BY <6>1, <6>3
            <6> QED
              BY <3>1, <6>2, <6>3
          <5> QED
            BY <3>2, <5>4 DEF Leads
        <4> QED
          BY <4>1, <4>2
      <3>5. CASE Filled = {}
        <4>1. Leads(c)'
          BY <2>4, <3>1, <3>2, <3>5 DEF Leads
        <4> QED
          BY <4>1 DEF LeaderInv
      <3>6. CASE Filled # {}
        BY <1>o, <3>3, <3>4, <3>6 DEF LeaderInv
      <3> QED
        BY <3>5, <3>6
    <2> QED
      BY <2>0, <2>5, <2>6
  <1>5. ASSUME NEW c \in Clients, ReturnModels(c)
        PROVE  LeaderInv'
    <2> DEFINE o == [batch |-> work[c].batch, ok |-> TRUE]
    <2>0. o \in outcomes' /\ o.ok
      BY <1>5 DEF ReturnModels, Returns
    <2>1. \E p \in outcomes' : p.ok
      BY <2>0
    <2> QED
      BY <2>1 DEF LeaderInv
  <1> QED
    BY <1>1, <1>2, <1>3, <1>4, <1>5
       DEF RegistryNext, Route, Update, RegisterWebhooks, RecordLocked, NothingChanges,
           registryVars, registryState

(***************************************************************************)
(* However many clients register however many models at a time, and       *)
(* however they disagree, they do not all refuse each other.              *)
(***************************************************************************)
THEOREM RegistrationSucceeds == RegistrySpec => []SomeRegistrationSucceeds
  <1>1. RegistryInit => LeaderInv
    BY DEF RegistryInit, LeaderInv, Filled
  <1>2. LeaderInv => SomeRegistrationSucceeds
    BY DEF LeaderInv, SomeRegistrationSucceeds, Filled, Leads
  <1> QED
    BY <1>1, <1>2, LeaderStep, TypeInvAlways, PTL DEF RegistrySpec
=============================================================================
