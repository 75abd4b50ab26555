------------------------- MODULE SwaggerModuleProofs ------------------------
(***************************************************************************)
(* What the module guarantees for any number of requests, clients, routes,*)
(* routers and attempts to change what it documents, and for any generator*)
(* Document.                                                               *)
(***************************************************************************)
EXTENDS SwaggerModule, RegistryProofs, Integers, FiniteSetTheorems

Table == Seq(TableRoutes)

ContentType == [drafts     : [Routes -> Drafts \cup {Undocumented}],
                components : Batches,
                webhooks   : [WebhookKeys -> Contents \cup {Absent}],
                issues     : Nat]

Outcomes == {NotCaptured} \cup {Document(t, c) : t \in Table, c \in ContentType}

Request == [pc : Steps, kind : Kinds \cup {"bytes"}, asked : 0 .. MaxRequests,
            revision : Nat, router : Routers \cup {NoRouter}, table : Table,
            data : Outcomes, attempts : 0 .. Attempts]

Cache == [valid : BOOLEAN, revision : Nat, table : Table, data : Outcomes]

(***************************************************************************)
(* Where a request stands bounds what it holds: it has a router wherever  *)
(* it reads the route list, and an attempt left wherever it starts one.   *)
(***************************************************************************)
RequestInv(q) ==
    /\ req[q].pc \in {"table", "key", "attempt", "list", "build", "revision", "fingerprint"}
          => req[q].router \in Routers
    /\ req[q].pc = "attempt" => req[q].attempts < Attempts
    /\ req[q].pc \in {"idle", "lock", "router", "table", "key"} => req[q].attempts = 0

SourcesInv ==
    /\ TypeInv
    /\ router \in Routers \cup {NoRouter}
    /\ tables \in [Routers -> Table]
    /\ mounting \in 0 .. Endpoints
    /\ mounting > 0 => router \in Routers
    /\ captures \in 0 .. MaxCaptures

RequestsInv ==
    /\ generationMu \in Requests \cup {Free}
    /\ cache \in Cache
    /\ req \in [Requests -> Request]
    /\ \A q \in Requests : RequestInv(q)

ModuleInv == SourcesInv /\ RequestsInv

LEMMA ModuleInvImplies == ModuleInv => ModuleTypeOK
  BY DEF ModuleInv, SourcesInv, RequestsInv, TypeInv, ModuleTypeOK, Cache, Request, Table

LEMMA ContentTypeCorrect == RegistryTypeOK => Content \in ContentType
  BY DEF RegistryTypeOK, Content, ContentType

LEMMA EmptyTable == <<>> \in Table
  BY DEF Table

LEMMA WaitingType == Waiting \in Request
  BY EmptyTable, ModuleAssumption DEF Waiting, Request, Steps, Outcomes, Attempts

LEMMA EmptyCacheType == EmptyCache \in Cache
  BY EmptyTable DEF EmptyCache, Cache, Outcomes

LEMMA ModuleInvInit == ModuleInit => ModuleInv
  <1> SUFFICES ASSUME ModuleInit
               PROVE  ModuleInv
    OBVIOUS
  <1>1. SourcesInv
    BY TypeInvInit, EmptyTable, ModuleAssumption DEF ModuleInit, SourcesInv
  <1>2. RequestsInv
    BY WaitingType, EmptyCacheType
       DEF ModuleInit, RequestsInv, RequestInv, Waiting, Attempts
  <1> QED
    BY <1>1, <1>2 DEF ModuleInv

-----------------------------------------------------------------------------
(* The application's steps. *)

LEMMA ApplicationKeepsSources == ModuleInv /\ Application => SourcesInv'
  <1> SUFFICES ASSUME ModuleInv, Application
               PROVE  SourcesInv'
    OBVIOUS
  <1> USE ModuleAssumption DEF ModuleInv, SourcesInv
  <1>1. CASE RegistryStep
    BY <1>1, TypeInvStep DEF RegistryStep, moduleState
  <1>2. ASSUME NEW c \in Clients, NEW rt \in Routers, NEW r \in Routes, RegisterRoute(c, rt, r)
        PROVE  SourcesInv'
    <2>1. TypeInv'
      BY <1>2, CallType
         DEF RegisterRoute, registryState, history, TypeInv, RegistryTypeOK,
             BuildersAreDocumented, ModelsAreNamed
    <2>2. r \in TableRoutes /\ tables[rt] \in Seq(TableRoutes)
      BY DEF TableRoutes, Table
    <2>3. Append(tables[rt], r) \in Table
      BY <2>2 DEF Table
    <2>4. tables' \in [Routers -> Table]
      BY <1>2, <2>3 DEF RegisterRoute
    <2> QED
      BY <1>2, <2>1, <2>4 DEF RegisterRoute
  <1>3. ASSUME NEW rt \in Routers \cup {NoRouter}, CaptureRouter(rt)
        PROVE  SourcesInv'
    <2>1. TypeInv'
      BY <1>3 DEF CaptureRouter, registryVars, registryState, history, TypeInv,
                  RegistryTypeOK, BuildersAreDocumented, ModelsAreNamed
    <2> QED
      BY <1>3, <2>1 DEF CaptureRouter
  <1>4. CASE MountEndpoint
    <2>1. TypeInv'
      BY <1>4 DEF MountEndpoint, registryVars, registryState, history, TypeInv,
                  RegistryTypeOK, BuildersAreDocumented, ModelsAreNamed
    <2>2. router \in Routers /\ mounting \in 1 .. Endpoints
      BY <1>4 DEF MountEndpoint
    <2>3. <<router, mounting>> \in TableRoutes /\ tables[router] \in Seq(TableRoutes)
      BY <2>2 DEF TableRoutes, Table
    <2>4. Append(tables[router], <<router, mounting>>) \in Table
      BY <2>3 DEF Table
    <2>5. tables' \in [Routers -> Table]
      BY <1>4, <2>2, <2>4 DEF MountEndpoint
    <2> QED
      BY <1>4, <2>1, <2>2, <2>5 DEF MountEndpoint
  <1> QED
    BY <1>1, <1>2, <1>3, <1>4 DEF Application

LEMMA ApplicationKeepsRequests == ModuleInv /\ Application => RequestsInv'
  <1> SUFFICES ASSUME ModuleInv, Application
               PROVE  RequestsInv'
    OBVIOUS
  <1>1. UNCHANGED <<generationMu, req>> /\ (cache' = cache \/ cache' = EmptyCache)
    BY DEF Application, RegistryStep, moduleState, RegisterRoute, CaptureRouter, MountEndpoint
  <1> QED
    BY <1>1, EmptyCacheType DEF ModuleInv, RequestsInv, RequestInv

-----------------------------------------------------------------------------
(* A request's steps. *)

\* A document of a route list and the registry's content is an outcome.
LEMMA DocumentType ==
    ASSUME TypeInv, NEW t \in Table
    PROVE  Document(t, Content) \in Outcomes
  BY ContentTypeCorrect DEF TypeInv, Outcomes

RequestSteps(q) == (\E kind \in Kinds : Ask(q, kind)) \/ Lock(q) \/ Proceed(q)

LEMMA RequestKeepsSources ==
    ASSUME ModuleInv, NEW q \in Requests, RequestSteps(q)
    PROVE  SourcesInv'
  <1>1. UNCHANGED <<registryVars, router, tables, mounting, captures>>
    BY DEF RequestSteps, Proceed, Elsewhere, Ask, Lock, ReadRouter, ReadTable, LookUp,
           ReadRevision, ReadList, Build, CheckRevision, CheckTable, Report, Return
  <1> QED
    BY <1>1 DEF ModuleInv, SourcesInv, registryVars, registryState, history, TypeInv,
                RegistryTypeOK, BuildersAreDocumented, ModelsAreNamed

\* What RequestInv says of one request, of the record alone.
Fits(r) ==
    /\ r.pc \in {"table", "key", "attempt", "list", "build", "revision", "fingerprint"}
          => r.router \in Routers
    /\ r.pc = "attempt" => r.attempts < Attempts
    /\ r.pc \in {"idle", "lock", "router", "table", "key"} => r.attempts = 0

\* A request that moves leaves the others where they are.
LEMMA RequestMoves ==
    ASSUME ModuleInv, NEW q \in Requests, NEW r \in Request, Fits(r),
           req' = [req EXCEPT ![q] = r],
           generationMu' \in Requests \cup {Free},
           cache' \in Cache
    PROVE  RequestsInv'
  <1>1. /\ req \in [Requests -> Request]
        /\ \A p \in Requests : RequestInv(p)
    BY DEF ModuleInv, RequestsInv
  <1>2. /\ req' \in [Requests -> Request]
        /\ req'[q] = r
        /\ \A p \in Requests \ {q} : req'[p] = req[p]
    BY <1>1
  <1>3. RequestInv(q)'
    BY <1>2 DEF RequestInv, Fits
  <1>4. \A p \in Requests \ {q} : RequestInv(p)'
    BY <1>1, <1>2 DEF RequestInv
  <1> QED
    BY <1>2, <1>3, <1>4 DEF RequestsInv

LEMMA RequestKeepsRequests ==
    ASSUME ModuleInv, NEW q \in Requests, RequestSteps(q)
    PROVE  RequestsInv'
  <1>0. /\ req[q] \in Request /\ RequestInv(q) /\ Fits(req[q])
        /\ req \in [Requests -> Request] /\ cache \in Cache
        /\ generationMu \in Requests \cup {Free} /\ revision \in Nat
        /\ router \in Routers \cup {NoRouter} /\ tables \in [Routers -> Table]
    BY DEF ModuleInv, RequestsInv, SourcesInv, TypeInv, RegistryTypeOK, RequestInv, Fits
  <1>a. PICK old \in Request : old = req[q]
    BY <1>0
  <1>1. ASSUME NEW kind \in Kinds, Ask(q, kind)
        PROVE  RequestsInv'
    <2> DEFINE r == [Waiting EXCEPT !.pc = IF CacheSpec /\ kind = "bytes"
                                           THEN "lock" ELSE "router",
                                    !.kind = kind,
                                    !.asked = req[q].asked + 1]
    <2>0. /\ (IF CacheSpec /\ kind = "bytes" THEN "lock" ELSE "router") \in Steps
          /\ req[q].asked + 1 \in 0 .. MaxRequests
      BY <1>0, <1>1, ModuleAssumption DEF Ask, Request, Steps
    <2>1. r \in Request
      BY <2>0, WaitingType DEF Request
    <2>2. Fits(r)
      BY DEF Fits, Waiting
    <2>3. req' = [req EXCEPT ![q] = r] /\ UNCHANGED <<generationMu, cache>>
      BY <1>1 DEF Ask
    <2> HIDE DEF r
    <2> QED
      BY <1>0, <2>1, <2>2, <2>3, RequestMoves
  <1>2. CASE Lock(q)
    <2> DEFINE r == [old EXCEPT !.pc = "router"]
    <2>1. r \in Request /\ Fits(r)
      BY <1>0, <1>a, <1>2 DEF Lock, Request, Fits, Attempts, Steps
    <2>2. req' = [req EXCEPT ![q] = r]
      BY <1>0, <1>a, <1>2 DEF Lock
    <2>3. generationMu' \in Requests \cup {Free} /\ cache' \in Cache
      BY <1>0, <1>2 DEF Lock
    <2> HIDE DEF r
    <2> QED
      BY <2>1, <2>2, <2>3, RequestMoves
  <1>3. CASE ReadRouter(q)
    <2> DEFINE r == [old EXCEPT !.router = router,
                             !.pc = IF router = NoRouter THEN "report" ELSE "table",
                             !.data = NotCaptured]
    <2>1. r \in Request /\ Fits(r)
      BY <1>0, <1>a, <1>3 DEF ReadRouter, Request, Fits, Attempts, Steps, Outcomes
    <2>2. req' = [req EXCEPT ![q] = r]
      BY <1>0, <1>a, <1>3 DEF ReadRouter
    <2>3. generationMu' \in Requests \cup {Free} /\ cache' \in Cache
      BY <1>0, <1>3 DEF ReadRouter
    <2> HIDE DEF r
    <2> QED
      BY <2>1, <2>2, <2>3, RequestMoves
  <1>4. CASE ReadTable(q)
    <2> DEFINE r == [old EXCEPT !.table = tables[req[q].router],
                             !.pc = IF Cached(q) THEN "key" ELSE "build"]
    <2>1. r \in Request /\ Fits(r)
      BY <1>0, <1>a, <1>4 DEF ReadTable, Request, Fits, Attempts, Steps
    <2>2. req' = [req EXCEPT ![q] = r]
      BY <1>0, <1>a, <1>4 DEF ReadTable
    <2>3. generationMu' \in Requests \cup {Free} /\ cache' \in Cache
      BY <1>0, <1>4 DEF ReadTable
    <2> HIDE DEF r
    <2> QED
      BY <2>1, <2>2, <2>3, RequestMoves
  <1>5. CASE LookUp(q)
    <2> DEFINE found  == [old EXCEPT !.data = cache.data, !.pc = "report"]
               missed == [old EXCEPT !.pc = "attempt"]
    <2>1. /\ old.pc = "key" /\ old.attempts = 0 /\ old.router \in Routers
          /\ cache.data \in Outcomes
      BY <1>0, <1>a, <1>5 DEF LookUp, Fits, Cache
    <2>2. req' = [req EXCEPT ![q] = found] \/ req' = [req EXCEPT ![q] = missed]
      BY <1>a, <1>5 DEF LookUp
    <2>3. generationMu' \in Requests \cup {Free} /\ cache' \in Cache
      BY <1>0, <1>5 DEF LookUp
    <2>4. found \in Request /\ Fits(found)
      BY <2>1 DEF Request, Steps, Fits
    <2>5. missed \in Request /\ Fits(missed)
      BY <2>1 DEF Request, Steps, Fits, Attempts
    <2> HIDE DEF found, missed
    <2> QED
      BY <2>2, <2>3, <2>4, <2>5, RequestMoves
  <1>6. CASE ReadRevision(q)
    <2> DEFINE r == [old EXCEPT !.revision = revision, !.attempts = @ + 1, !.pc = "list"]
    <2>1. r \in Request /\ Fits(r)
      BY <1>0, <1>a, <1>6 DEF ReadRevision, Request, Fits, Attempts, Steps
    <2>2. req' = [req EXCEPT ![q] = r]
      BY <1>0, <1>a, <1>6 DEF ReadRevision
    <2>3. generationMu' \in Requests \cup {Free} /\ cache' \in Cache
      BY <1>0, <1>6 DEF ReadRevision
    <2> HIDE DEF r
    <2> QED
      BY <2>1, <2>2, <2>3, RequestMoves
  <1>7. CASE ReadList(q)
    <2> DEFINE r == [old EXCEPT !.table = tables[req[q].router], !.pc = "build"]
    <2>1. r \in Request /\ Fits(r)
      BY <1>0, <1>a, <1>7 DEF ReadList, Request, Fits, Attempts, Steps
    <2>2. req' = [req EXCEPT ![q] = r]
      BY <1>0, <1>a, <1>7 DEF ReadList
    <2>3. generationMu' \in Requests \cup {Free} /\ cache' \in Cache
      BY <1>0, <1>7 DEF ReadList
    <2> HIDE DEF r
    <2> QED
      BY <2>1, <2>2, <2>3, RequestMoves
  <1>8. CASE Build(q)
    <2>0. PICK document \in Outcomes : document = Document(req[q].table, Snapshot)
      BY <1>0, DocumentType DEF Request, Snapshot, ModuleInv, SourcesInv
    <2> DEFINE r == [old EXCEPT !.data = document,
                                !.pc = IF Cached(q) THEN "revision" ELSE "report"]
    <2>1. r \in Request /\ Fits(r)
      BY <1>0, <1>a, <1>8 DEF Build, Request, Steps, Fits
    <2>2. req' = [req EXCEPT ![q] = r]
      BY <1>0, <1>a, <1>8, <2>0 DEF Build
    <2>3. generationMu' \in Requests \cup {Free} /\ cache' \in Cache
      BY <1>0, <1>8 DEF Build
    <2> HIDE DEF r
    <2> QED
      BY <2>1, <2>2, <2>3, RequestMoves
  <1>9. ASSUME req[q].pc \in {"revision", "fingerprint"}, RetryOrGiveUp(q),
               UNCHANGED <<generationMu, cache>>
        PROVE  RequestsInv'
    <2> DEFINE r == [old EXCEPT !.pc = IF req[q].attempts < Attempts THEN "attempt" ELSE "report"]
    <2>1. r \in Request /\ Fits(r)
      BY <1>0, <1>a, <1>9 DEF Request, Fits, Steps
    <2>2. req' = [req EXCEPT ![q] = r]
      BY <1>0, <1>a, <1>9 DEF RetryOrGiveUp
    <2> HIDE DEF r
    <2> QED
      BY <1>0, <1>9, <2>1, <2>2, RequestMoves
  <1>10. CASE CheckRevision(q)
    <2> DEFINE r == [old EXCEPT !.pc = "fingerprint"]
    <2>1. r \in Request /\ Fits(r)
      BY <1>0, <1>a, <1>10 DEF CheckRevision, Request, Fits, Steps
    <2>2. CASE req' = [req EXCEPT ![q] = r] /\ UNCHANGED <<generationMu, cache>>
      <3> HIDE DEF r
      <3> QED
        BY <1>0, <2>1, <2>2, RequestMoves
    <2>3. CASE RetryOrGiveUp(q) /\ UNCHANGED <<generationMu, cache>>
      BY <1>9, <1>10, <2>3 DEF CheckRevision
    <2> QED
      BY <1>0, <1>a, <1>10, <2>2, <2>3 DEF CheckRevision
  <1>11. CASE CheckTable(q)
    <2> DEFINE r == [old EXCEPT !.pc = "report"]
    <2>1. r \in Request /\ Fits(r)
      BY <1>0, <1>a, <1>11 DEF CheckTable, Request, Fits, Steps
    <2>2. [valid |-> TRUE, revision |-> req[q].revision,
           table |-> req[q].table, data |-> req[q].data] \in Cache
      BY <1>0 DEF Request, Cache
    <2>3. CASE Store(q) /\ req' = [req EXCEPT ![q].pc = "report"]
      <3>1. req' = [req EXCEPT ![q] = r]
        BY <1>0, <1>a, <2>3
      <3>2. generationMu' \in Requests \cup {Free} /\ cache' \in Cache
        BY <1>0, <1>11, <2>2, <2>3 DEF CheckTable, Store
      <3> HIDE DEF r
      <3> QED
        BY <2>1, <3>1, <3>2, RequestMoves
    <2>4. CASE RetryOrGiveUp(q) /\ UNCHANGED cache
      BY <1>9, <1>11, <2>4 DEF CheckTable
    <2> QED
      BY <1>11, <2>3, <2>4 DEF CheckTable
  <1>12. CASE Report(q)
    <2> DEFINE r == [old EXCEPT !.pc = "return"]
    <2>1. r \in Request /\ Fits(r)
      BY <1>0, <1>a, <1>12 DEF Report, Request, Fits, Attempts, Steps
    <2>2. req' = [req EXCEPT ![q] = r]
      BY <1>0, <1>a, <1>12 DEF Report
    <2>3. generationMu' \in Requests \cup {Free} /\ cache' \in Cache
      BY <1>0, <1>12 DEF Report
    <2> HIDE DEF r
    <2> QED
      BY <2>1, <2>2, <2>3, RequestMoves
  <1>13. CASE Return(q)
    <2> DEFINE r == [Waiting EXCEPT !.asked = req[q].asked]
    <2>1. r \in Request /\ Fits(r)
      BY <1>0, WaitingType DEF Request, Waiting, Fits
    <2>2. req' = [req EXCEPT ![q] = r]
      BY <1>13 DEF Return
    <2>3. generationMu' \in Requests \cup {Free} /\ cache' \in Cache
      BY <1>0, <1>13 DEF Return, Unlock
    <2> HIDE DEF r
    <2> QED
      BY <2>1, <2>2, <2>3, RequestMoves
  <1> QED
    BY <1>1, <1>2, <1>3, <1>4, <1>5, <1>6, <1>7, <1>8, <1>10, <1>11, <1>12, <1>13
       DEF RequestSteps, Proceed

LEMMA ModuleInvStep == ModuleInv /\ [ModuleNext]_vars => ModuleInv'
  <1> SUFFICES ASSUME ModuleInv, [ModuleNext]_vars
               PROVE  ModuleInv'
    OBVIOUS
  <1>1. CASE Application
    BY <1>1, ApplicationKeepsSources, ApplicationKeepsRequests DEF ModuleInv
  <1>2. ASSUME NEW q \in Requests, RequestSteps(q)
        PROVE  ModuleInv'
    BY <1>2, RequestKeepsSources, RequestKeepsRequests DEF ModuleInv
  <1>3. CASE UNCHANGED vars
    BY <1>3 DEF vars, moduleState, moduleHistory, registryVars, registryState, history,
                ModuleInv, SourcesInv, RequestsInv, RequestInv, TypeInv, RegistryTypeOK,
                BuildersAreDocumented, ModelsAreNamed
  <1> QED
    BY <1>1, <1>2, <1>3 DEF ModuleNext, RequestSteps

LEMMA ModuleInvAlways == ModuleSpec => []ModuleInv
  BY ModuleInvInit, ModuleInvStep, PTL DEF ModuleSpec

(***************************************************************************)
(* Every variable of the module keeps its type: in particular a request   *)
(* reads a route list only of a captured router, and never starts a fourth*)
(* attempt.                                                                *)
(***************************************************************************)
THEOREM ModuleTypeCorrect == ModuleSpec => []ModuleTypeOK
  BY ModuleInvAlways, ModuleInvImplies, PTL

-----------------------------------------------------------------------------
(***************************************************************************)
(* CacheIsSound is not inductive: what is about to be stored has to be    *)
(* sound as well.  Nothing carries a revision of the future, and a build  *)
(* whose revision is still the current one describes the current content. *)
(***************************************************************************)
NoFutureRevision ==
    /\ cache.revision <= revision
    /\ \A q \in Requests : req[q].revision <= revision

BuildsAreSound ==
    \A q \in Requests :
       req[q].pc \in {"revision", "fingerprint"} /\ req[q].revision = revision
          => req[q].data = Document(req[q].table, Content)

CacheInv == ModuleInv /\ NoFutureRevision /\ CacheIsSound /\ BuildsAreSound

\* A step of the application advances the revision or leaves the content alone.
LEMMA ApplicationForward ==
    ASSUME ModuleInv, Application
    PROVE  /\ revision \in Nat /\ revision' \in Nat /\ revision' >= revision
           /\ revision' = revision => Content' = Content
  <1>1. revision \in Nat /\ revision' \in Nat
    BY ApplicationKeepsSources DEF ModuleInv, SourcesInv, TypeInv, RegistryTypeOK
  <1>2. CASE RegistryStep
    <2>1. Forward
      BY <1>2, ForwardStep DEF ModuleInv, SourcesInv, RegistryStep
    <2> QED
      BY <1>1, <2>1 DEF Forward, RevisionAdvances
  <1>3. CASE UNCHANGED registryState
    BY <1>1, <1>3 DEF registryState, Content
  <1> QED
    BY <1>2, <1>3 DEF Application, RegisterRoute, CaptureRouter, MountEndpoint, registryVars

LEMMA ApplicationKeepsCache == CacheInv /\ Application => CacheInv'
  <1> SUFFICES ASSUME CacheInv, Application
               PROVE  NoFutureRevision' /\ CacheIsSound' /\ BuildsAreSound'
    BY ApplicationKeepsSources, ApplicationKeepsRequests DEF CacheInv, ModuleInv
  <1>1. /\ revision \in Nat /\ revision' \in Nat /\ revision' >= revision
        /\ revision' = revision => Content' = Content
    BY ApplicationForward DEF CacheInv
  <1>2. UNCHANGED req /\ (cache' = cache \/ cache' = EmptyCache)
    BY DEF Application, RegistryStep, moduleState, RegisterRoute, CaptureRouter, MountEndpoint
  <1>3. cache.revision \in Nat /\ \A q \in Requests : req[q].revision \in Nat
    BY DEF CacheInv, ModuleInv, RequestsInv, Cache, Request
  <1>4. NoFutureRevision'
    BY <1>1, <1>2, <1>3 DEF CacheInv, NoFutureRevision, EmptyCache
  <1>5. CacheIsSound'
    BY <1>1, <1>2, <1>3 DEF CacheInv, NoFutureRevision, CacheIsSound, EmptyCache
  <1>6. BuildsAreSound'
    BY <1>1, <1>2, <1>3 DEF CacheInv, NoFutureRevision, BuildsAreSound
  <1> QED
    BY <1>4, <1>5, <1>6

LEMMA RequestKeepsCache ==
    ASSUME CacheInv, NEW q \in Requests, RequestSteps(q)
    PROVE  CacheInv'
  <1> SUFFICES NoFutureRevision' /\ CacheIsSound' /\ BuildsAreSound'
    BY ModuleInvStep DEF CacheInv, ModuleNext, RequestSteps
  <1> USE DEF CacheInv, ModuleInv, RequestsInv
  <1>0. /\ UNCHANGED <<revision, Content>>
        /\ revision \in Nat
        /\ req \in [Requests -> Request] /\ cache \in Cache
    BY DEF RequestSteps, Proceed, Elsewhere, Ask, Lock, ReadRouter, ReadTable, LookUp,
           ReadRevision, ReadList, Build, CheckRevision, CheckTable, Report, Return,
           registryVars, registryState, Content, SourcesInv, TypeInv, RegistryTypeOK
  \* The steps that neither read the revision nor store.
  <1>1. ASSUME UNCHANGED cache,
               req'[q].revision \in {0, revision, req[q].revision},
               req'[q].pc \in {"revision", "fingerprint"} /\ req'[q].revision = revision
                  => req'[q].data = Document(req'[q].table, Content),
               \A other \in Requests \ {q} : req'[other] = req[other]
        PROVE  NoFutureRevision' /\ CacheIsSound' /\ BuildsAreSound'
    BY <1>0, <1>1 DEF NoFutureRevision, CacheIsSound, BuildsAreSound
  <1>2. ASSUME NEW kind \in Kinds, Ask(q, kind)
        PROVE  NoFutureRevision' /\ CacheIsSound' /\ BuildsAreSound'
    BY <1>0, <1>1, <1>2 DEF Ask, Waiting
  <1>3. CASE Lock(q)
    BY <1>0, <1>1, <1>3 DEF Lock, Request
  <1>4. CASE ReadRouter(q)
    BY <1>0, <1>1, <1>4 DEF ReadRouter, Request
  <1>5. CASE ReadTable(q)
    BY <1>0, <1>1, <1>5 DEF ReadTable, Request
  <1>6. CASE LookUp(q)
    BY <1>0, <1>1, <1>6 DEF LookUp, Request
  <1>7. CASE ReadRevision(q)
    BY <1>0, <1>1, <1>7 DEF ReadRevision, Request
  <1>8. CASE ReadList(q)
    BY <1>0, <1>1, <1>8 DEF ReadList, Request
  <1>9. CASE Build(q)
    BY <1>0, <1>1, <1>9 DEF Build, Request, Snapshot
  <1>10. CASE CheckRevision(q)
    BY <1>0, <1>1, <1>10
       DEF CheckRevision, SameRevision, RetryOrGiveUp, Request, BuildsAreSound
  <1>11. CASE CheckTable(q)
    <2>1. CASE RetryOrGiveUp(q) /\ UNCHANGED cache
      BY <1>0, <1>1, <2>1 DEF RetryOrGiveUp, Request
    <2>2. CASE Store(q) /\ req' = [req EXCEPT ![q].pc = "report"]
      <3>1. req[q].pc = "fingerprint"
        BY <1>11 DEF CheckTable
      <3>2. NoFutureRevision' /\ BuildsAreSound'
        BY <1>0, <2>2 DEF Store, Request, NoFutureRevision, BuildsAreSound
      <3>3. CacheIsSound'
        BY <1>0, <2>2, <3>1 DEF Store, CacheIsSound, BuildsAreSound
      <3> QED
        BY <3>2, <3>3
    <2> QED
      BY <1>11, <2>1, <2>2 DEF CheckTable
  <1>12. CASE Report(q)
    BY <1>0, <1>1, <1>12 DEF Report, Request
  <1>13. CASE Return(q)
    BY <1>0, <1>1, <1>13 DEF Return, Waiting
  <1> QED
    BY <1>2, <1>3, <1>4, <1>5, <1>6, <1>7, <1>8, <1>9, <1>10, <1>11, <1>12, <1>13
       DEF RequestSteps, Proceed

LEMMA CacheInvInit == ModuleInit => CacheInv
  <1>1. ASSUME ModuleInit PROVE NoFutureRevision /\ CacheIsSound /\ BuildsAreSound
    BY <1>1 DEF ModuleInit, RegistryInit, EmptyCache, Waiting, NoFutureRevision,
                CacheIsSound, BuildsAreSound
  <1> QED
    BY <1>1, ModuleInvInit DEF CacheInv

LEMMA CacheInvStep == CacheInv /\ [ModuleNext]_vars => CacheInv'
  <1> SUFFICES ASSUME CacheInv, [ModuleNext]_vars
               PROVE  CacheInv'
    OBVIOUS
  <1>1. CASE Application
    BY <1>1, ApplicationKeepsCache
  <1>2. ASSUME NEW q \in Requests, RequestSteps(q)
        PROVE  CacheInv'
    BY <1>2, RequestKeepsCache
  <1>3. CASE UNCHANGED vars
    <2>1. ModuleInv'
      BY ModuleInvStep DEF CacheInv
    <2> QED
      BY <1>3, <2>1 DEF vars, moduleState, registryVars, registryState, CacheInv, Content,
                        NoFutureRevision, CacheIsSound, BuildsAreSound
  <1> QED
    BY <1>1, <1>2, <1>3 DEF ModuleNext, RequestSteps

LEMMA CacheInvAlways == ModuleSpec => []CacheInv
  BY CacheInvInit, CacheInvStep, PTL DEF ModuleSpec

(***************************************************************************)
(* Whatever changes while documents are built, what the cache answers is  *)
(* what a build of its route list would produce now: bytes are never      *)
(* stored under a revision they do not describe.                          *)
(***************************************************************************)
THEOREM CacheSound == ModuleSpec => []CacheIsSound
  <1>1. CacheInv => CacheIsSound
    BY DEF CacheInv
  <1> QED
    BY <1>1, CacheInvAlways, PTL

-----------------------------------------------------------------------------
(***************************************************************************)
(* generationMu keeps cached requests apart: between Lock and Return one  *)
(* holds it, and the steps that look a key up, retry or store are taken by*)
(* its holder alone.                                                       *)
(***************************************************************************)
HolderInv(q) ==
    /\ req[q].pc # "idle" => req[q].kind \in Kinds
    /\ Cached(q) /\ req[q].pc \notin {"idle", "lock"} => generationMu = q
    /\ req[q].pc \in {"lock", "key", "attempt", "list", "revision", "fingerprint"}
          => Cached(q)

Exclusion == \A q \in Requests : HolderInv(q)

LEMMA ExclusionInit == ModuleInit => Exclusion
  BY DEF ModuleInit, Exclusion, HolderInv, Waiting

LEMMA RequestMovesAlone ==
    ASSUME ModuleInv, NEW q \in Requests, RequestSteps(q)
    PROVE  /\ \A other \in Requests \ {q} : req'[other] = req[other]
           /\ UNCHANGED <<CurrentTable, Version>>
  <1>1. \A other \in Requests \ {q} : req'[other] = req[other]
    BY DEF ModuleInv, RequestsInv, RequestSteps, Proceed, Ask, Lock, ReadRouter, ReadTable,
           LookUp, ReadRevision, ReadList, Build, CheckRevision, RetryOrGiveUp, CheckTable,
           Report, Return
  <1>2. UNCHANGED <<registryVars, router, tables>>
    BY DEF RequestSteps, Proceed, Elsewhere, Ask, Lock, ReadRouter, ReadTable, LookUp,
           ReadRevision, ReadList, Build, CheckRevision, CheckTable, Report, Return
  <1> QED
    BY <1>1, <1>2 DEF CurrentTable, Version, Content, registryVars, registryState

LEMMA ExclusionStep == ModuleInv /\ Exclusion /\ [ModuleNext]_vars => Exclusion'
  <1> SUFFICES ASSUME ModuleInv, Exclusion, [ModuleNext]_vars
               PROVE  Exclusion'
    OBVIOUS
  <1> USE ModuleAssumption DEF ModuleInv, RequestsInv
  <1>1. CASE UNCHANGED <<generationMu, req>>
    BY <1>1 DEF Exclusion, HolderInv, Cached
  <1>2. ASSUME NEW q \in Requests, RequestSteps(q)
        PROVE  Exclusion'
    <2>1. \A other \in Requests \ {q} : req'[other] = req[other]
      BY <1>2, RequestMovesAlone
    <2>2. generationMu' = generationMu \/ generationMu \in {Free, q}
      BY <1>2 DEF RequestSteps, Proceed, Ask, Lock, ReadRouter, ReadTable, LookUp,
                  ReadRevision, ReadList, Build, CheckRevision, CheckTable, Report,
                  Return, Unlock
    <2>3. HolderInv(q)'
      <3> USE DEF HolderInv, Cached, Exclusion, Request
      <3>1. CASE \E kind \in Kinds : Ask(q, kind)
        BY <3>1 DEF Ask, Waiting
      <3>2. CASE Lock(q)
        BY <3>2 DEF Lock
      <3>3. CASE ReadRouter(q)
        BY <3>3 DEF ReadRouter
      <3>4. CASE ReadTable(q)
        BY <3>4 DEF ReadTable
      <3>5. CASE LookUp(q)
        BY <3>5 DEF LookUp
      <3>6. CASE ReadRevision(q)
        BY <3>6 DEF ReadRevision
      <3>7. CASE ReadList(q)
        BY <3>7 DEF ReadList
      <3>8. CASE Build(q)
        BY <3>8 DEF Build
      <3>9. CASE CheckRevision(q)
        BY <3>9 DEF CheckRevision, RetryOrGiveUp
      <3>10. CASE CheckTable(q)
        BY <3>10 DEF CheckTable, RetryOrGiveUp
      <3>11. CASE Report(q)
        BY <3>11 DEF Report
      <3>12. CASE Return(q)
        BY <3>12 DEF Return, Waiting
      <3> QED
        BY <1>2, <3>1, <3>2, <3>3, <3>4, <3>5, <3>6, <3>7, <3>8, <3>9, <3>10, <3>11, <3>12
           DEF RequestSteps, Proceed
    <2> QED
      BY <2>1, <2>2, <2>3 DEF Exclusion, HolderInv, Cached
  <1>3. Application => UNCHANGED <<generationMu, req>>
    BY DEF Application, RegistryStep, moduleState, RegisterRoute, CaptureRouter, MountEndpoint
  <1> QED
    BY <1>1, <1>2, <1>3 DEF ModuleNext, RequestSteps, vars, moduleState

-----------------------------------------------------------------------------
(***************************************************************************)
(* AnswersAreCurrent rests on what an open request has been shown: the    *)
(* instants it could be the answer of, and how often it was disturbed.    *)
(***************************************************************************)
Current(t) == Describe(t, Version)

Disturbed(q, n) == window[q].changes >= n \/ window[q].changes >= Patience

SeenInv(q) ==
    /\ window[q].changes \in 0 .. Patience
    /\ window[q].open <=> req[q].pc # "idle"
    /\ window[q].open =>
          /\ CurrentTable \in window[q].tables
          /\ Current(CurrentTable) \in window[q].exact
          /\ window[q].exact \subseteq window[q].mixed
          /\ \A t \in window[q].tables : Current(t) \in window[q].mixed

LEMMA PatienceType == Patience \in {2, 4}
  BY DEF Patience, Attempts

LEMMA Watched ==
    ASSUME NEW q \in Requests, Observe, req' = req, SeenInv(q), window[q].open,
           <<CurrentTable, Version>>' # <<CurrentTable, Version>>
    PROVE  /\ SeenInv(q)'
           /\ window[q].tables \subseteq window'[q].tables
           /\ window[q].exact \subseteq window'[q].exact
           /\ window[q].mixed \subseteq window'[q].mixed
           /\ \A n \in Int : Disturbed(q, n) => Disturbed(q, n + 1)'
  <1>1. window'[q] = Service!Observed(window[q])
    BY DEF Observe
  <1>2. /\ window'[q].open
        /\ window'[q].tables = window[q].tables \cup {CurrentTable'}
        /\ window'[q].exact = window[q].exact \cup {Current(CurrentTable)'}
        /\ window'[q].mixed = window[q].mixed
              \cup {Current(t)' : t \in window[q].tables \cup {CurrentTable'}}
        /\ window'[q].changes = IF window[q].changes < Patience
                                THEN window[q].changes + 1 ELSE Patience
    BY <1>1 DEF Service!Observed, Current
  <1>3. window'[q].changes \in 0 .. Patience
    BY <1>2, PatienceType DEF SeenInv
  <1>4. \A n \in Int : Disturbed(q, n) => Disturbed(q, n + 1)'
    BY <1>2, PatienceType DEF SeenInv, Disturbed, Patience
  <1>5. \A t \in window'[q].tables : Current(t)' \in window'[q].mixed
    BY <1>2
  <1>6. SeenInv(q)'
    BY <1>2, <1>3, <1>5 DEF SeenInv
  <1> QED
    BY <1>2, <1>4, <1>6

(***************************************************************************)
(* A cached request shuts Routes out until it returns; one that does not  *)
(* use the cache relies on Routes being called once.                      *)
(***************************************************************************)
OneRouter == MaxCaptures <= 1 \/ (CacheSpec /\ Kinds = {"bytes"})

AtTable == {"table", "key", "attempt", "list", "build", "revision", "fingerprint"}

RouterInv ==
    /\ captures = 0 => router = NoRouter
    /\ \A q \in Requests : req[q].pc \in AtTable /\ (Cached(q) \/ OneRouter)
                            => req[q].router = router

LEMMA RouterInvInit == ModuleInit => RouterInv
  BY DEF ModuleInit, RouterInv, Waiting, AtTable

LEMMA RouterInvStep ==
    ASSUME ModuleInv, Exclusion, RouterInv, [ModuleNext]_vars
    PROVE  RouterInv'
  <1> USE ModuleAssumption DEF ModuleInv, SourcesInv, RequestsInv
  <1>1. CASE UNCHANGED <<router, captures, req>>
    BY <1>1 DEF RouterInv, Cached, OneRouter
  <1>2. ASSUME NEW rt \in Routers \cup {NoRouter}, CaptureRouter(rt)
        PROVE  RouterInv'
    <2>1. \A q \in Requests : ~(req[q].pc \in AtTable /\ (Cached(q) \/ OneRouter))
      <3> SUFFICES ASSUME NEW q \in Requests, req[q].pc \in AtTable, Cached(q) \/ OneRouter
                   PROVE  FALSE
        OBVIOUS
      <3>1. generationMu = Free /\ captures < MaxCaptures
        BY <1>2 DEF CaptureRouter, NoGeneration
      <3>2. req[q].router \in Routers /\ req[q].router = router
        BY DEF RequestInv, RouterInv, AtTable
      <3>3. ~Cached(q)
        BY <3>1 DEF Exclusion, HolderInv, AtTable
      <3>4. req[q].kind \in Kinds
        BY DEF Exclusion, HolderInv, AtTable
      <3>5. captures = 0
        BY <3>1, <3>3, <3>4 DEF OneRouter, Cached
      <3> QED
        BY <3>2, <3>5 DEF RouterInv
    <2>2. captures' # 0
      BY <1>2 DEF CaptureRouter
    <2> QED
      BY <1>2, <2>1, <2>2 DEF CaptureRouter, RouterInv, Cached, OneRouter
  <1>3. ASSUME NEW q \in Requests, RequestSteps(q)
        PROVE  RouterInv'
    <2>1. UNCHANGED <<router, captures>>
      BY <1>3 DEF RequestSteps, Proceed, Elsewhere, Ask, Lock, ReadRouter, ReadTable, LookUp,
                  ReadRevision, ReadList, Build, CheckRevision, CheckTable, Report, Return
    <2>2. \A other \in Requests \ {q} : req'[other] = req[other]
      BY <1>3, RequestMovesAlone
    <2>3. req'[q].pc \in AtTable /\ (Cached(q)' \/ OneRouter) => req'[q].router = router
      <3> USE DEF RouterInv, AtTable, Request, Cached
      <3>1. CASE ReadRouter(q)
        BY <3>1 DEF ReadRouter
      <3>2. CASE \E kind \in Kinds : Ask(q, kind)
        BY <3>2 DEF Ask, Waiting
      <3>3. CASE Lock(q) \/ Report(q) \/ Return(q)
        <4>1. req'[q].pc \in {"router", "return", "idle"}
          BY <3>3 DEF Lock, Report, Return, Waiting
        <4> QED
          BY <4>1
      <3>4. CASE ReadTable(q) \/ LookUp(q) \/ ReadRevision(q) \/ ReadList(q)
        BY <3>4 DEF ReadTable, LookUp, ReadRevision, ReadList
      <3>5. CASE Build(q) \/ CheckRevision(q) \/ CheckTable(q)
        BY <3>5 DEF Build, CheckRevision, RetryOrGiveUp, CheckTable
      <3> QED
        BY <1>3, <3>1, <3>2, <3>3, <3>4, <3>5 DEF RequestSteps, Proceed
    <2> QED
      BY <2>1, <2>2, <2>3 DEF RouterInv, Cached, OneRouter
  <1>4. RegistryStep \/ (\E c \in Clients, rt \in Routers, r \in Routes : RegisterRoute(c, rt, r))
           \/ MountEndpoint
        => UNCHANGED <<router, captures, req>>
    BY DEF RegistryStep, moduleState, RegisterRoute, MountEndpoint
  <1> QED
    BY <1>1, <1>2, <1>3, <1>4 DEF ModuleNext, Application, RequestSteps, vars, moduleState

-----------------------------------------------------------------------------
(***************************************************************************)
(* A request retries only because it was disturbed, each attempt at least *)
(* once more; and what it is about to answer describes an instant of it,  *)
(* unless it was disturbed once more still.                                *)
(***************************************************************************)
Turn(q) == IF Cached(q) THEN req[q].attempts ELSE 1

RetryInv(q) ==
    /\ req[q].pc = "attempt" => Disturbed(q, req[q].attempts)
    /\ req[q].pc \in {"list", "build", "revision", "fingerprint"}
          => Disturbed(q, Turn(q) - 1)
    /\ req[q].pc \in {"list", "build", "revision"} /\ Cached(q) /\ req[q].revision # revision
          => Disturbed(q, Turn(q))
    /\ req[q].pc \in {"build", "revision", "fingerprint"} /\ req[q].table # CurrentTable
          => Disturbed(q, Turn(q))

\* The outcome a request holds, or would build now.
Candidate(q) ==
    IF req[q].pc \in {"key", "build"} THEN Current(req[q].table) ELSE req[q].data

CandidateInv(q) ==
    /\ req[q].pc \in {"key", "build"} => req[q].table \in window[q].tables
    /\ req[q].pc = "key" /\ cache.valid /\ cache.revision = revision
          => Candidate(q) \in window[q].exact
    /\ req[q].pc \in {"build", "revision"}
          => Candidate(q) \in window[q].exact \/ Disturbed(q, Turn(q) + 1)
    /\ req[q].pc \in {"build", "revision"} /\ Cached(q) /\ req[q].revision = revision
          => Candidate(q) \in window[q].exact
    /\ req[q].pc = "revision" => req[q].data \in window[q].mixed
    /\ req[q].pc = "fingerprint" => req[q].data \in window[q].exact

AnswerInv(q) == SeenInv(q) /\ RetryInv(q) /\ CandidateInv(q)

ServiceInv ==
    /\ CacheInv /\ Exclusion /\ RouterInv
    /\ window = [q \in Requests |-> window[q]]
    /\ \A q \in Requests : AnswerInv(q)

LEMMA ApplicationMoves ==
    ASSUME CacheInv, Application
    PROVE  /\ Observe
           /\ req' = req
           /\ cache' = cache \/ ~cache'.valid
           /\ Version' = Version \/ (revision' > revision /\ CurrentTable' = CurrentTable)
  <1>1. Observe /\ req' = req /\ (cache' = cache \/ ~cache'.valid)
    BY DEF Application, RegistryStep, moduleState, RegisterRoute, CaptureRouter, MountEndpoint,
           EmptyCache
  <1>2. CASE RegistryStep
    <2>1. CurrentTable' = CurrentTable
      BY <1>2 DEF RegistryStep, moduleState, CurrentTable
    <2>2. revision' > revision \/ (revision' = revision /\ Content' = Content)
      BY ApplicationForward DEF CacheInv
    <2> QED
      BY <1>1, <2>1, <2>2 DEF Version
  <1>3. CASE UNCHANGED registryState
    BY <1>1, <1>3 DEF registryState, Version, Content
  <1> QED
    BY <1>2, <1>3 DEF Application, RegisterRoute, CaptureRouter, MountEndpoint, registryVars

LEMMA ApplicationKeepsAnswers ==
    ASSUME CacheInv, Application, NEW q \in Requests, AnswerInv(q)
    PROVE  AnswerInv(q)'
  <1>1. /\ Observe /\ req' = req
        /\ cache' = cache \/ ~cache'.valid
        /\ Version' = Version \/ (revision' > revision /\ CurrentTable' = CurrentTable)
    BY ApplicationMoves
  <1>2. CASE ~window[q].open \/ <<CurrentTable, Version>>' = <<CurrentTable, Version>>
    <2>1. window'[q] = window[q]
      BY <1>1, <1>2 DEF Observe
    <2>2. CASE ~window[q].open
      BY <1>1, <2>1, <2>2 DEF AnswerInv, SeenInv, RetryInv, CandidateInv
    <2>3. CASE CurrentTable' = CurrentTable /\ Version' = Version
      <3>1. revision' = revision /\ \A t : Current(t)' = Current(t)
        BY <2>3 DEF Version, Current
      <3>2. \A n : Disturbed(q, n)' <=> Disturbed(q, n)
        BY <2>1 DEF Disturbed, Patience
      <3>3. SeenInv(q)'
        BY <1>1, <2>1, <2>3, <3>1 DEF AnswerInv, SeenInv, Patience
      <3>4. RetryInv(q)'
        BY <1>1, <2>3, <3>1, <3>2 DEF AnswerInv, RetryInv, Turn, Cached
      <3>5. CandidateInv(q)'
        BY <1>1, <2>1, <3>1, <3>2 DEF AnswerInv, CandidateInv, Candidate, Turn, Cached
      <3> QED
        BY <3>3, <3>4, <3>5 DEF AnswerInv
    <2> QED
      BY <1>2, <2>2, <2>3
  <1>3. CASE window[q].open /\ <<CurrentTable, Version>>' # <<CurrentTable, Version>>
    <2>1. /\ SeenInv(q)'
          /\ window[q].tables \subseteq window'[q].tables
          /\ window[q].exact \subseteq window'[q].exact
          /\ window[q].mixed \subseteq window'[q].mixed
          /\ \A n \in Int : Disturbed(q, n) => Disturbed(q, n + 1)'
      BY <1>1, <1>3, Watched DEF AnswerInv
    <2>2. \A n \in Int : Disturbed(q, n + 1)' => Disturbed(q, n)'
      BY <2>1, PatienceType DEF SeenInv, Disturbed, Patience
    <2>3. Turn(q) \in Int /\ Turn(q)' = Turn(q) /\ req[q].attempts \in Int
      BY <1>1 DEF CacheInv, ModuleInv, RequestsInv, Request, Turn, Cached
    <2>4. RetryInv(q)'
      BY <1>1, <2>1, <2>2, <2>3 DEF AnswerInv, RetryInv, Cached
    <2>5. CASE Version' = Version
      <3>1. revision' = revision /\ \A t : Current(t)' = Current(t)
        BY <2>5 DEF Version, Current
      <3> QED
        BY <1>1, <2>1, <2>2, <2>3, <2>4, <3>1
           DEF AnswerInv, CandidateInv, Candidate, Cached
    <2>6. CASE revision' > revision /\ CurrentTable' = CurrentTable
      <3>1. /\ cache.revision <= revision /\ req[q].revision <= revision
            /\ cache.revision \in Nat /\ req[q].revision \in Nat
            /\ revision \in Nat /\ revision' \in Nat
        BY ApplicationForward
           DEF CacheInv, NoFutureRevision, ModuleInv, RequestsInv, Cache, Request
      <3>2. ~(cache'.valid /\ cache'.revision = revision') /\ req'[q].revision # revision'
        BY <1>1, <2>6, <3>1
      <3>3. ASSUME req[q].pc = "build", req[q].table = CurrentTable
            PROVE  Candidate(q)' \in window'[q].exact
        BY <1>1, <1>3, <2>1, <2>6, <3>3 DEF Candidate, SeenInv
      <3>4. ASSUME req[q].pc = "build", req[q].table # CurrentTable
            PROVE  Disturbed(q, Turn(q) + 1)'
        BY <1>1, <2>1, <2>3, <3>4 DEF AnswerInv, RetryInv
      <3>5. ASSUME req[q].pc = "revision"
            PROVE  Candidate(q)' \in window'[q].exact \/ Disturbed(q, Turn(q) + 1)'
        BY <1>1, <2>1, <2>2, <2>3, <3>5 DEF AnswerInv, CandidateInv, Candidate
      <3>6. CandidateInv(q)'
        BY <1>1, <2>1, <3>2, <3>3, <3>4, <3>5 DEF AnswerInv, CandidateInv
      <3> QED
        BY <2>1, <2>4, <3>6 DEF AnswerInv
    <2> QED
      BY <1>1, <2>5, <2>6
  <1> QED
    BY <1>2, <1>3

-----------------------------------------------------------------------------
(* A request's own steps, and what they are to the others. *)

LEMMA OthersKeepAnswers ==
    ASSUME ServiceInv, NEW q \in Requests, RequestSteps(q), NEW other \in Requests \ {q}
    PROVE  AnswerInv(other)'
  <1> USE DEF ServiceInv
  <1>1. req'[other] = req[other] /\ UNCHANGED <<CurrentTable, Version>>
    BY RequestMovesAlone DEF CacheInv
  <1>2. window'[other] = window[other]
    BY DEF RequestSteps, Proceed, Ask, Lock, ReadRouter, ReadTable, LookUp, ReadRevision,
           ReadList, Build, CheckRevision, CheckTable, Report, Return, moduleHistory
  <1>3. revision' = revision /\ \A t : Current(t)' = Current(t)
    BY <1>1 DEF Version, Current
  <1>4. req[other].pc = "key" => cache' = cache
    <2>1. CASE CheckTable(q)
      <3>1. generationMu = q
        BY <2>1 DEF CheckTable, Exclusion, HolderInv
      <3>2. req[other].pc # "key"
        BY <3>1 DEF Exclusion, HolderInv
      <3> QED
        BY <3>2
    <2>2. CASE ~CheckTable(q)
      BY <2>2 DEF RequestSteps, Proceed, Ask, Lock, ReadRouter, ReadTable, LookUp, ReadRevision,
                  ReadList, Build, CheckRevision, Report, Return
    <2> QED
      BY <2>1, <2>2
  <1>5. \A n : Disturbed(other, n)' <=> Disturbed(other, n)
    BY <1>2 DEF Disturbed, Patience
  <1>6. SeenInv(other)'
    BY <1>1, <1>2, <1>3 DEF AnswerInv, SeenInv, Patience
  <1>7. RetryInv(other)'
    BY <1>1, <1>3, <1>5 DEF AnswerInv, RetryInv, Turn, Cached
  <1>8. CandidateInv(other)'
    BY <1>1, <1>2, <1>3, <1>4, <1>5 DEF AnswerInv, CandidateInv, Candidate, Turn, Cached
  <1> QED
    BY <1>6, <1>7, <1>8 DEF AnswerInv

\* A captured router's route list is never the table of no router.
LEMMA CurrentIsDocument ==
    ASSUME NEW t \in Table
    PROVE  Current(t) = Document(t, Content)
  <1>1. t # NoTable
    BY ModuleAssumption DEF Table, NoTable, TableRoutes
  <1> QED
    BY <1>1 DEF Current, Describe, Version

LEMMA RequestKeepsAnswer ==
    ASSUME OneRouter, ServiceInv, NEW q \in Requests, RequestSteps(q)
    PROVE  AnswerInv(q)'
  <1> USE DEF ServiceInv, CacheInv, ModuleInv, RequestsInv
  <1>0. /\ AnswerInv(q) /\ HolderInv(q) /\ RequestInv(q)
        /\ req[q] \in Request /\ req \in [Requests -> Request]
    BY DEF Exclusion
  <1>1. UNCHANGED <<CurrentTable, Version>>
    BY RequestMovesAlone
  <1>2. revision' = revision /\ \A t : Current(t)' = Current(t)
    BY <1>1 DEF Version, Current
  <1>3. req[q].pc \in AtTable => tables[req[q].router] = CurrentTable
    BY <1>0, ModuleAssumption DEF RouterInv, AtTable, RequestInv, CurrentTable
  <1>4. ASSUME req[q].pc # "idle", window' = window, req'[q].pc # "idle"
        PROVE  SeenInv(q)' /\ \A n : Disturbed(q, n)' <=> Disturbed(q, n)
    BY <1>0, <1>1, <1>2, <1>4 DEF AnswerInv, SeenInv, Disturbed, Patience
  <1>5. ASSUME NEW kind \in Kinds, Ask(q, kind)
        PROVE  AnswerInv(q)'
    <2>1. req'[q].pc \in {"lock", "router"}
      BY <1>5 DEF Ask, Waiting
    <2>2. /\ window'[q].open /\ window'[q].changes = 0
          /\ window'[q].tables = {CurrentTable}
          /\ window'[q].exact = {Current(CurrentTable)}
          /\ window'[q].mixed = {Current(CurrentTable)}
      BY <1>5 DEF Ask, Current
    <2>3. SeenInv(q)'
      BY <1>1, <1>2, <2>1, <2>2, PatienceType DEF SeenInv, Patience
    <2> QED
      BY <2>1, <2>3 DEF AnswerInv, RetryInv, CandidateInv
  <1>6. CASE Lock(q) \/ ReadRouter(q) \/ Report(q)
    <2>1. req'[q].pc \in {"router", "report", "table", "return"}
      BY <1>0, <1>6 DEF Lock, ReadRouter, Report, Request
    <2>2. SeenInv(q)'
      BY <1>4, <1>6, <2>1 DEF Lock, ReadRouter, Report, moduleHistory
    <2> QED
      BY <2>1, <2>2 DEF AnswerInv, RetryInv, CandidateInv
  <1>7. CASE ReadTable(q)
    <2>1. /\ req'[q].pc = IF Cached(q) THEN "key" ELSE "build"
          /\ req'[q].table = CurrentTable
          /\ Cached(q)' <=> Cached(q)
          /\ window' = window
      BY <1>3, <1>7 DEF ReadTable, AtTable, Cached, moduleHistory
    <2>2. SeenInv(q)' /\ \A n : Disturbed(q, n)' <=> Disturbed(q, n)
      BY <1>4, <1>7, <2>1 DEF ReadTable
    <2>3. Disturbed(q, 0)
      BY <1>0 DEF AnswerInv, SeenInv, Disturbed
    <2>4. Turn(q)' = 1 \/ Cached(q)
      BY <2>1 DEF Turn
    <2>5. RetryInv(q)'
      BY <1>1, <2>1, <2>2, <2>3, <2>4 DEF RetryInv
    <2>6. req'[q].table \in window'[q].tables /\ Candidate(q)' \in window'[q].exact
      BY <1>0, <1>2, <1>7, <2>1 DEF ReadTable, AnswerInv, SeenInv, Candidate
    <2>7. CandidateInv(q)'
      BY <2>1, <2>6 DEF CandidateInv
    <2> QED
      BY <2>2, <2>5, <2>7 DEF AnswerInv
  <1>8. CASE LookUp(q)
    <2>1. req'[q].pc = "report" \/ (req'[q].pc = "attempt" /\ req'[q].attempts = 0)
      BY <1>0, <1>8 DEF LookUp, RequestInv, Request
    <2>2. SeenInv(q)' /\ \A n : Disturbed(q, n)' <=> Disturbed(q, n)
      BY <1>4, <1>8, <2>1 DEF LookUp
    <2>3. Disturbed(q, 0)
      BY <1>0 DEF AnswerInv, SeenInv, Disturbed
    <2> QED
      BY <2>1, <2>2, <2>3 DEF AnswerInv, RetryInv, CandidateInv
  <1>9. CASE ReadRevision(q)
    <2>1. /\ req'[q].pc = "list" /\ req'[q].revision = revision
          /\ req'[q].attempts = req[q].attempts + 1 /\ req[q].attempts \in Nat
          /\ Cached(q)' /\ window' = window
      BY <1>0, <1>9 DEF ReadRevision, Request, HolderInv, Cached, moduleHistory, Attempts
    <2>2. SeenInv(q)' /\ \A n : Disturbed(q, n)' <=> Disturbed(q, n)
      BY <1>4, <1>9, <2>1 DEF ReadRevision
    <2>3. Turn(q)' - 1 = req[q].attempts
      BY <2>1 DEF Turn
    <2> QED
      BY <1>0, <1>2, <1>9, <2>1, <2>2, <2>3
         DEF ReadRevision, AnswerInv, RetryInv, CandidateInv
  <1>10. CASE ReadList(q)
    <2>1. /\ req'[q].pc = "build" /\ req'[q].table = CurrentTable
          /\ req'[q].revision = req[q].revision
          /\ Cached(q)' /\ Cached(q) /\ Turn(q)' = Turn(q)
          /\ window' = window
      BY <1>0, <1>3, <1>10 DEF ReadList, AtTable, HolderInv, Cached, Turn, moduleHistory
    <2>2. SeenInv(q)' /\ \A n : Disturbed(q, n)' <=> Disturbed(q, n)
      BY <1>4, <1>10, <2>1 DEF ReadList
    <2>3. RetryInv(q)'
      BY <1>0, <1>1, <1>2, <1>10, <2>1, <2>2 DEF ReadList, AnswerInv, RetryInv
    <2>4. req'[q].table \in window'[q].tables /\ Candidate(q)' \in window'[q].exact
      BY <1>0, <1>2, <1>10, <2>1 DEF ReadList, AnswerInv, SeenInv, Candidate
    <2>5. CandidateInv(q)'
      BY <2>1, <2>4 DEF CandidateInv
    <2> QED
      BY <2>2, <2>3, <2>5 DEF AnswerInv
  <1>11. CASE Build(q)
    <2>1. /\ req'[q].data = Current(req[q].table)
          /\ req'[q].pc = IF Cached(q) THEN "revision" ELSE "report"
          /\ req'[q].table = req[q].table /\ req'[q].revision = req[q].revision
          /\ (Cached(q)' <=> Cached(q)) /\ Turn(q)' = Turn(q)
          /\ window' = window
      BY <1>0, <1>11, CurrentIsDocument DEF Build, Request, Cached, Turn, Snapshot
    <2>2. SeenInv(q)' /\ \A n : Disturbed(q, n)' <=> Disturbed(q, n)
      BY <1>4, <1>11, <2>1 DEF Build
    <2>3. RetryInv(q)'
      BY <1>0, <1>1, <1>2, <1>11, <2>1, <2>2 DEF Build, AnswerInv, RetryInv
    <2>4. req'[q].data \in window[q].mixed
      BY <1>0, <1>11, <2>1 DEF Build, AnswerInv, SeenInv, CandidateInv
    <2>5. CandidateInv(q)'
      BY <1>0, <1>2, <1>11, <2>1, <2>2, <2>4 DEF Build, AnswerInv, CandidateInv, Candidate
    <2> QED
      BY <2>2, <2>3, <2>5 DEF AnswerInv
  <1>12. CASE CheckRevision(q)
    <2>1. /\ req'[q].pc \in {"fingerprint", "attempt", "report"}
          /\ req'[q].data = req[q].data /\ req'[q].table = req[q].table
          /\ req'[q].attempts = req[q].attempts /\ Turn(q) = req[q].attempts
          /\ (Cached(q)' <=> Cached(q)) /\ Turn(q)' = Turn(q)
          /\ window' = window
      BY <1>0, <1>12
         DEF CheckRevision, RetryOrGiveUp, Request, HolderInv, Cached, Turn, moduleHistory
    <2>2. SeenInv(q)' /\ \A n : Disturbed(q, n)' <=> Disturbed(q, n)
      BY <1>4, <1>12, <2>1 DEF CheckRevision
    <2>3. /\ req'[q].pc = "fingerprint" => req[q].revision = revision
          /\ req'[q].pc = "attempt" => req[q].revision # revision
      BY <1>0, <1>12 DEF CheckRevision, SameRevision, RetryOrGiveUp, Request
    <2>4. RetryInv(q)'
      BY <1>0, <1>1, <1>12, <2>1, <2>2, <2>3 DEF CheckRevision, HolderInv, AnswerInv, RetryInv
    <2>5. CandidateInv(q)'
      BY <1>0, <1>12, <2>1, <2>3 DEF CheckRevision, HolderInv, AnswerInv, CandidateInv, Candidate
    <2> QED
      BY <2>2, <2>4, <2>5 DEF AnswerInv
  <1>13. CASE CheckTable(q)
    <2>1. /\ req'[q].pc = "report" \/ (/\ req'[q].pc = "attempt"
                                       /\ req'[q].attempts = req[q].attempts
                                       /\ req[q].table # CurrentTable)
          /\ window' = window
      BY <1>0, <1>3, <1>13 DEF CheckTable, RetryOrGiveUp, AtTable, Request, moduleHistory
    <2>2. SeenInv(q)' /\ \A n : Disturbed(q, n)' <=> Disturbed(q, n)
      BY <1>4, <1>13, <2>1 DEF CheckTable
    <2>3. Turn(q) = req[q].attempts
      BY <1>0, <1>13 DEF CheckTable, HolderInv, Turn
    <2> QED
      BY <1>0, <1>13, <2>1, <2>2, <2>3
         DEF CheckTable, AnswerInv, RetryInv, CandidateInv
  <1>14. CASE Return(q)
    <2>1. req'[q].pc = "idle" /\ ~window'[q].open /\ window'[q].changes = 0
      BY <1>14 DEF Return, Waiting, Service!NoCall
    <2> QED
      BY <2>1, PatienceType DEF AnswerInv, SeenInv, RetryInv, CandidateInv, Patience
  <1> QED
    BY <1>5, <1>6, <1>7, <1>8, <1>9, <1>10, <1>11, <1>12, <1>13, <1>14
       DEF RequestSteps, Proceed

LEMMA ServiceInvInit == ModuleInit => ServiceInv
  <1> SUFFICES ASSUME ModuleInit
               PROVE  ServiceInv
    OBVIOUS
  <1>1. window = [q \in Requests |-> window[q]]
    BY DEF ModuleInit
  <1>2. \A q \in Requests : AnswerInv(q)
    BY PatienceType DEF ModuleInit, Waiting, Service!NoCall, AnswerInv, SeenInv, RetryInv,
                        CandidateInv
  <1> QED
    BY <1>1, <1>2, CacheInvInit, ExclusionInit, RouterInvInit DEF ServiceInv

LEMMA ServiceInvStep ==
    ASSUME OneRouter, ServiceInv, [ModuleNext]_vars
    PROVE  ServiceInv'
  <1>1. CacheInv' /\ Exclusion' /\ RouterInv'
    BY CacheInvStep, ExclusionStep, RouterInvStep DEF ServiceInv, CacheInv
  <1>2. CASE Application
    <2>1. window' = [q \in Requests |-> window'[q]]
      BY <1>2, ApplicationMoves DEF ServiceInv, Observe
    <2> QED
      BY <1>1, <1>2, <2>1, ApplicationKeepsAnswers DEF ServiceInv
  <1>3. ASSUME NEW q \in Requests, RequestSteps(q)
        PROVE  ServiceInv'
    <2>1. window' = [r \in Requests |-> window'[r]]
      BY <1>3 DEF ServiceInv, RequestSteps, Proceed, Ask, Lock, ReadRouter, ReadTable, LookUp,
                  ReadRevision, ReadList, Build, CheckRevision, CheckTable, Report, Return,
                  moduleHistory
    <2>2. AnswerInv(q)'
      BY <1>3, RequestKeepsAnswer
    <2>3. \A other \in Requests \ {q} : AnswerInv(other)'
      BY <1>3, OthersKeepAnswers
    <2> QED
      BY <1>1, <2>1, <2>2, <2>3 DEF ServiceInv
  <1>4. CASE UNCHANGED vars
    <2>1. UNCHANGED <<CurrentTable, Version, window, req, cache, revision>>
      BY <1>4 DEF vars, registryVars, registryState, moduleState, moduleHistory, CurrentTable,
                  Version, Content
    <2>2. \A t : Current(t)' = Current(t)
      BY <2>1 DEF Current
    <2>3. \A q \in Requests : AnswerInv(q)'
      BY <2>1, <2>2 DEF ServiceInv, AnswerInv, SeenInv, RetryInv, CandidateInv, Candidate,
                        Turn, Cached, Disturbed, Patience
    <2> QED
      BY <1>1, <2>1, <2>3 DEF ServiceInv
  <1> QED
    BY <1>2, <1>3, <1>4 DEF ModuleNext, RequestSteps

-----------------------------------------------------------------------------
(* Every step is a step of DocumentService, or none. *)

LEMMA ApplicationServes ==
    ASSUME ServiceInv, Application
    PROVE  [Service!ServiceNext]_(Service!serviceVars)
  <1>1. /\ Observe /\ req' = req
        /\ Version' = Version \/ CurrentTable' = CurrentTable
    BY ApplicationMoves DEF ServiceInv
  <1>2. Reply' = Reply
    BY <1>1 DEF Reply
  <1>3. CASE <<CurrentTable, Version>>' = <<CurrentTable, Version>>
    <2>1. window' = window
      BY <1>1, <1>3 DEF ServiceInv, Observe
    <2> QED
      BY <1>2, <1>3, <2>1 DEF Service!serviceVars
  <1>4. CASE <<CurrentTable, Version>>' # <<CurrentTable, Version>>
    <2>1. window' = [q \in Requests |-> IF window[q].open
                                        THEN Service!Observed(window[q]) ELSE window[q]]
      BY <1>1, <1>4 DEF Observe
    <2>2. Service!SourceChanges
      BY <1>1, <1>2, <1>4, <2>1 DEF Service!SourceChanges
    <2> QED
      BY <2>2 DEF Service!ServiceNext
  <1> QED
    BY <1>3, <1>4

LEMMA RequestServes ==
    ASSUME ServiceInv, NEW q \in Requests, RequestSteps(q)
    PROVE  [Service!ServiceNext]_(Service!serviceVars)
  <1>0. /\ CacheInv /\ AnswerInv(q) /\ HolderInv(q) /\ RequestInv(q)
        /\ req[q] \in Request /\ req \in [Requests -> Request]
    BY DEF ServiceInv, Exclusion, CacheInv, ModuleInv, RequestsInv
  <1>1. UNCHANGED <<CurrentTable, Version>>
        /\ \A other \in Requests \ {q} : req'[other] = req[other]
    BY <1>0, RequestMovesAlone DEF CacheInv
  <1>2. /\ Reply = [r \in Requests |-> Reply[r]]
        /\ \A other \in Requests \ {q} : Reply'[other] = Reply[other]
        /\ Reply' = [Reply EXCEPT ![q] = Reply'[q]]
    BY <1>1 DEF Reply
  <1>3. ASSUME window' = window, Reply'[q] = Reply[q]
        PROVE  UNCHANGED Service!serviceVars
    BY <1>1, <1>2, <1>3 DEF Service!serviceVars
  <1>4. ASSUME window' = window, req[q].pc \notin {"idle", "report", "return"},
               req'[q].pc = "report", req'[q].data \in Service!Allowed(window[q])
        PROVE  Service!Answer(q)
    <2>1. Reply[q] = Service!NoAnswer /\ Reply'[q] = <<req'[q].data>>
      BY <1>4 DEF Reply, Service!NoAnswer
    <2>2. window[q].open
      BY <1>0, <1>4 DEF AnswerInv, SeenInv
    <2> QED
      BY <1>1, <1>2, <1>4, <2>1, <2>2 DEF Service!Answer
  <1>5. req[q].pc # "idle" /\ req'[q].data \in window[q].exact
           => req'[q].data \in Service!Allowed(window[q])
    BY <1>0 DEF AnswerInv, SeenInv, Service!Allowed
  <1>6. req'[q].data \in window[q].mixed
           /\ (req'[q].data \in window[q].exact \/ window[q].changes >= Patience)
           => req'[q].data \in Service!Allowed(window[q])
    BY <1>0, PatienceType DEF AnswerInv, SeenInv, Service!Allowed
  <1>7. ASSUME NEW kind \in Kinds, Ask(q, kind)
        PROVE  Service!Begin(q)
    <2>1. Reply' = Reply
      BY <1>0, <1>2, <1>7 DEF Ask, Waiting, Reply
    <2>2. ~window[q].open
      BY <1>0, <1>7 DEF Ask, AnswerInv, SeenInv
    <2> QED
      BY <1>1, <1>7, <2>1, <2>2 DEF Ask, Service!Begin, Service!Current
  <1>8. CASE Lock(q) \/ ReadTable(q) \/ ReadRevision(q) \/ ReadList(q) \/ Report(q)
    <2>1. window' = window
      BY <1>8 DEF Lock, ReadTable, ReadRevision, ReadList, Report, moduleHistory
    <2>2. Reply'[q] = Reply[q]
      <3>1. CASE Report(q)
        BY <1>0, <3>1 DEF Report, Reply, Request
      <3>2. CASE ReadTable(q)
        BY <1>0, <3>2 DEF ReadTable, Reply, Request
      <3>3. CASE Lock(q) \/ ReadRevision(q) \/ ReadList(q)
        <4>1. req[q].pc \in {"lock", "attempt", "list"} /\ req'[q].pc \in {"router", "list", "build"}
          BY <1>0, <3>3 DEF Lock, ReadRevision, ReadList, Request
        <4> QED
          BY <4>1 DEF Reply
      <3> QED
        BY <1>8, <3>1, <3>2, <3>3
    <2> QED
      BY <1>3, <2>1, <2>2
  <1>9. CASE ReadRouter(q)
    <2>1. CASE router = NoRouter
      <3>1. NotCaptured = Current(CurrentTable)
        BY <2>1 DEF CurrentTable, Current, Describe
      <3>2. req'[q].pc = "report" /\ req'[q].data = NotCaptured /\ window' = window
        BY <1>0, <1>9, <2>1 DEF ReadRouter, Request
      <3>3. req'[q].data \in window[q].exact
        BY <1>0, <1>9, <3>1, <3>2 DEF ReadRouter, AnswerInv, SeenInv
      <3> QED
        BY <1>4, <1>5, <1>9, <3>2, <3>3 DEF ReadRouter, Service!ServiceNext
    <2>2. CASE router # NoRouter
      <3>1. Reply'[q] = Reply[q] /\ window' = window
        BY <1>0, <1>9, <2>2 DEF ReadRouter, Reply, Request
      <3> QED
        BY <1>3, <3>1
    <2> QED
      BY <2>1, <2>2
  <1>10. CASE LookUp(q)
    <2>1. CASE Hit(q) /\ req'[q].pc = "report" /\ req'[q].data = cache.data
      <3>1. cache.data = Current(req[q].table)
        BY <1>0, <2>1, CurrentIsDocument DEF CacheInv, CacheIsSound, Hit, Request
      <3>2. req'[q].data \in window[q].exact
        BY <1>0, <1>10, <2>1, <3>1 DEF LookUp, Hit, AnswerInv, CandidateInv, Candidate
      <3> QED
        BY <1>4, <1>5, <1>10, <2>1, <3>2 DEF LookUp, Service!ServiceNext
    <2>2. CASE req'[q].pc = "attempt"
      <3>1. Reply'[q] = Reply[q] /\ window' = window
        BY <1>10, <2>2 DEF LookUp, Reply
      <3> QED
        BY <1>3, <3>1
    <2> QED
      BY <1>0, <1>10, <2>1, <2>2 DEF LookUp, Request
  <1>11. CASE Build(q)
    <2>1. /\ req'[q].data = Current(req[q].table)
          /\ req'[q].pc = IF Cached(q) THEN "revision" ELSE "report"
          /\ window' = window
      BY <1>0, <1>11, CurrentIsDocument DEF Build, Request, Snapshot
    <2>2. CASE Cached(q)
      <3>1. Reply'[q] = Reply[q]
        BY <1>11, <2>1, <2>2 DEF Build, Reply
      <3> QED
        BY <1>3, <2>1, <3>1
    <2>3. CASE ~Cached(q)
      <3>1. Patience = 2
        BY <1>0, <1>11, <2>3 DEF Build, HolderInv, Cached, Patience
      <3>2. /\ req'[q].data \in window[q].mixed
            /\ req'[q].data \in window[q].exact \/ Disturbed(q, 2)
        BY <1>0, <1>11, <2>1, <2>3
           DEF Build, AnswerInv, SeenInv, CandidateInv, Candidate, Turn
      <3>3. req'[q].data \in Service!Allowed(window[q])
        BY <1>6, <3>1, <3>2 DEF Disturbed
      <3> QED
        BY <1>4, <1>11, <2>1, <2>3, <3>3 DEF Build, Service!ServiceNext
    <2> QED
      BY <2>2, <2>3
  <1>12. CASE CheckRevision(q)
    <2>1. /\ req'[q].data = req[q].data /\ window' = window
          /\ req'[q].pc \in {"fingerprint", "attempt"}
                \/ (req'[q].pc = "report" /\ req[q].attempts = Attempts)
      BY <1>0, <1>12
         DEF CheckRevision, SameRevision, RetryOrGiveUp, Request, Attempts, moduleHistory
    <2>2. CASE req'[q].pc # "report"
      <3>1. Reply'[q] = Reply[q]
        BY <1>12, <2>1, <2>2 DEF CheckRevision, Reply
      <3> QED
        BY <1>3, <2>1, <3>1
    <2>3. CASE req'[q].pc = "report"
      <3>1. Turn(q) + 1 = 4
        BY <1>0, <1>12, <2>1, <2>3 DEF CheckRevision, HolderInv, Turn, Attempts
      <3>2. /\ req'[q].data \in window[q].mixed
            /\ req'[q].data \in window[q].exact \/ Disturbed(q, 4)
        BY <1>0, <1>12, <2>1, <3>1 DEF CheckRevision, AnswerInv, CandidateInv, Candidate
      <3>3. window[q].changes \in Nat
        BY <1>0, PatienceType DEF AnswerInv, SeenInv
      <3>4. req'[q].data \in Service!Allowed(window[q])
        BY <1>6, <3>2, <3>3, PatienceType DEF Disturbed
      <3> QED
        BY <1>4, <1>12, <2>1, <2>3, <3>4 DEF CheckRevision, Service!ServiceNext
    <2> QED
      BY <2>2, <2>3
  <1>13. CASE CheckTable(q)
    <2>1. /\ req'[q].data = req[q].data /\ window' = window
          /\ req'[q].pc \in {"attempt", "report"}
      BY <1>0, <1>13 DEF CheckTable, RetryOrGiveUp, Request, moduleHistory
    <2>2. CASE req'[q].pc = "attempt"
      <3>1. Reply'[q] = Reply[q]
        BY <1>13, <2>2 DEF CheckTable, Reply
      <3> QED
        BY <1>3, <2>1, <3>1
    <2>3. CASE req'[q].pc = "report"
      <3>1. req'[q].data \in window[q].exact
        BY <1>0, <1>13, <2>1 DEF CheckTable, AnswerInv, CandidateInv
      <3> QED
        BY <1>4, <1>5, <1>13, <2>1, <2>3, <3>1 DEF CheckTable, Service!ServiceNext
    <2> QED
      BY <2>1, <2>2, <2>3
  <1>14. CASE Return(q)
    <2>1. Reply[q] # Service!NoAnswer /\ Reply'[q] = Service!NoAnswer
      BY <1>0, <1>14 DEF Return, Waiting, Reply, Service!NoAnswer
    <2> QED
      BY <1>1, <1>2, <1>14, <2>1 DEF Return, Service!Return, Service!ServiceNext
  <1> QED
    BY <1>7, <1>8, <1>9, <1>10, <1>11, <1>12, <1>13, <1>14
       DEF RequestSteps, Proceed, Service!ServiceNext

(***************************************************************************)
(* The module implements DocumentService, for any number of requests,     *)
(* clients and changes and any generator, when every request uses the     *)
(* cache or Routes is called once: whatever is answered paired a table and*)
(* a registry that were current during the request, and describes one     *)
(* instant of it unless the request was disturbed Patience times.          *)
(***************************************************************************)
THEOREM ImplementsService ==
    ASSUME OneRouter
    PROVE  ModuleSpec => AnswersAreCurrent
  <1>1. ModuleInit => Service!ServiceInit
    BY DEF ModuleInit, Waiting, Reply, Service!ServiceInit, Service!NoAnswer
  <1>2. ServiceInv /\ [ModuleNext]_vars => [Service!ServiceNext]_(Service!serviceVars)
    <2> SUFFICES ASSUME ServiceInv, [ModuleNext]_vars
                 PROVE  [Service!ServiceNext]_(Service!serviceVars)
      OBVIOUS
    <2>1. CASE UNCHANGED vars
      BY <2>1 DEF vars, registryVars, registryState, moduleState, moduleHistory, CurrentTable,
                  Version, Content, Reply, Service!serviceVars
    <2> QED
      BY <2>1, ApplicationServes, RequestServes DEF ModuleNext, RequestSteps
  <1>3. ServiceInv /\ [ModuleNext]_vars => ServiceInv'
    BY ServiceInvStep
  <1> QED
    BY <1>1, <1>2, <1>3, ServiceInvInit, PTL DEF ModuleSpec, AnswersAreCurrent, Service!ServiceSpec

-----------------------------------------------------------------------------
(***************************************************************************)
(* NoKeyIsBuiltTwice: a key can be built again only if it neither is in   *)
(* the cache nor has gone for good, because the revision advanced or the  *)
(* captured router's list, which only grows, became longer.                *)
(***************************************************************************)
Prefix(t) ==
    /\ Len(t) <= Len(CurrentTable)
    /\ \A i \in 1 .. Len(t) : t[i] = CurrentTable[i]

Spent(k) == k[1] < revision \/ Len(k[2]) < Len(CurrentTable)

InCache(k) == cache.valid /\ cache.revision = k[1] /\ cache.table = k[2]

Building(q) == Cached(q) /\ req[q].pc \in {"attempt", "list", "build", "revision", "fingerprint"}

\* What a cached request knows of the keys built so far.
KeyInv(q) ==
    Cached(q) =>
       /\ req[q].pc \in {"key", "build", "revision", "fingerprint"} => Prefix(req[q].table)
       /\ req[q].pc = "key" => \A k \in built :
             /\ Len(k[2]) <= Len(req[q].table)
             /\ k[1] < revision \/ Len(k[2]) < Len(req[q].table) \/ InCache(k)
       /\ req[q].pc = "attempt" => \A k \in built : Spent(k)
       /\ req[q].pc = "list" => \A k \in built :
             k[1] < req[q].revision \/ Len(k[2]) < Len(CurrentTable)
       /\ req[q].pc = "build" => \A k \in built :
             k[1] < req[q].revision \/ Len(k[2]) < Len(req[q].table)
       /\ req[q].pc \in {"revision", "fingerprint"} => \A k \in built :
             Spent(k) \/ k = <<req[q].revision, req[q].table>>

BuiltInv ==
    /\ built \subseteq Nat \X Table
    /\ IsFiniteSet(built) /\ NoKeyIsBuiltTwice
    /\ \A k \in built : k[1] <= revision /\ Prefix(k[2])
    /\ cache.valid => Prefix(cache.table)
    /\ (\A q \in Requests : ~Building(q)) => \A k \in built : Spent(k) \/ InCache(k)
    /\ \A q \in Requests : KeyInv(q)

BuildInv == CacheInv /\ Exclusion /\ RouterInv /\ BuiltInv

LEMMA PrefixesAgree ==
    ASSUME NEW s \in Table, NEW t \in Table, Prefix(s), Prefix(t), Len(s) = Len(t)
    PROVE  s = t
  BY DEF Prefix, Table

LEMMA CurrentTableType ==
    ASSUME ModuleInv
    PROVE  /\ CurrentTable \in Seq(TableRoutes \cup {NoRouter})
           /\ router # NoRouter => CurrentTable = tables[router] /\ CurrentTable \in Table
  <1>1. CASE router = NoRouter
    BY <1>1 DEF CurrentTable, NoTable
  <1>2. CASE router # NoRouter
    <2>1. CurrentTable = tables[router] /\ CurrentTable \in Table
      BY <1>2 DEF CurrentTable, ModuleInv, SourcesInv
    <2> QED
      BY <1>2, <2>1 DEF Table
  <1> QED
    BY <1>1, <1>2

LEMMA BuildInvInit == ModuleInit => BuildInv
  <1> SUFFICES ASSUME ModuleInit
               PROVE  BuiltInv
    BY CacheInvInit, ExclusionInit, RouterInvInit DEF BuildInv
  <1>1. IsFiniteSet(built) /\ NoKeyIsBuiltTwice
    BY FS_EmptySet DEF ModuleInit, NoKeyIsBuiltTwice
  <1> QED
    BY <1>1 DEF ModuleInit, BuiltInv, KeyInv, Waiting, EmptyCache

\* The revision and the current route list only move forward.
Aged ==
    /\ revision <= revision'
    /\ Len(CurrentTable) <= Len(CurrentTable')
    /\ \A t \in Table : Prefix(t) => Prefix(t)'

LEMMA ApplicationAges ==
    ASSUME ModuleInv, Application, \A rt \in Routers \cup {NoRouter} : ~CaptureRouter(rt)
    PROVE  Aged /\ UNCHANGED <<req, cache, built, builds>>
  <1>1. UNCHANGED <<req, cache, built, builds>>
    BY DEF Application, RegistryStep, moduleState, RegisterRoute, MountEndpoint
  <1>2. revision <= revision'
    BY ApplicationForward
  <1>3. ASSUME NEW t \in Table, NEW r,
               CurrentTable \in Table,
               CurrentTable' = Append(CurrentTable, r), r \in TableRoutes
        PROVE  Len(CurrentTable) <= Len(CurrentTable') /\ (Prefix(t) => Prefix(t)')
    BY <1>3 DEF Prefix, Table
  <1>4. CASE CurrentTable' = CurrentTable
    BY <1>1, <1>2, <1>4, CurrentTableType DEF Aged, Prefix
  <1>5. CASE CurrentTable' # CurrentTable
    <2>1. PICK rt \in Routers, r \in TableRoutes :
             router' = router /\ tables' = [tables EXCEPT ![rt] = Append(@, r)]
      <3>1. ASSUME NEW c \in Clients, NEW rt \in Routers, NEW r \in Routes,
                   RegisterRoute(c, rt, r)
            PROVE  /\ router' = router /\ tables' = [tables EXCEPT ![rt] = Append(@, r)]
                   /\ r \in TableRoutes
        BY <3>1 DEF RegisterRoute, TableRoutes
      <3>2. CASE MountEndpoint
        <4>1. router \in Routers /\ mounting \in 1 .. Endpoints
          BY <3>2 DEF MountEndpoint, ModuleInv, SourcesInv
        <4>2. <<router, mounting>> \in TableRoutes
          BY <4>1 DEF TableRoutes
        <4> QED
          BY <3>2, <4>1, <4>2 DEF MountEndpoint
      <3>3. RegistryStep => CurrentTable' = CurrentTable
        BY DEF RegistryStep, moduleState, CurrentTable
      <3> QED
        BY <1>5, <3>1, <3>2, <3>3 DEF Application
    <2>2. router # NoRouter /\ rt = router
      BY <1>5, <2>1 DEF CurrentTable, ModuleInv, SourcesInv
    <2>3. CurrentTable \in Table /\ CurrentTable' = Append(CurrentTable, r)
      BY <2>1, <2>2, CurrentTableType DEF CurrentTable, ModuleInv, SourcesInv
    <2>4. \A t \in Table : Prefix(t) => Prefix(t)'
      BY <1>3, <2>3
    <2>5. Len(CurrentTable) <= Len(CurrentTable')
      BY <1>3, <2>3, EmptyTable
    <2> QED
      BY <1>1, <1>2, <2>4, <2>5 DEF Aged
  <1> QED
    BY <1>4, <1>5

LEMMA NextTypes ==
    ASSUME CacheInv'
    PROVE  revision' \in Nat /\ CurrentTable' \in Seq(TableRoutes \cup {NoRouter})
  <1> USE DEF CacheInv, ModuleInv, SourcesInv, TypeInv, RegistryTypeOK
  <1>1. CASE router' = NoRouter
    BY <1>1 DEF CurrentTable, NoTable
  <1>2. CASE router' # NoRouter
    <2>1. CurrentTable' = tables'[router'] /\ CurrentTable' \in Table
      BY <1>2 DEF CurrentTable
    <2> QED
      BY <2>1 DEF Table
  <1> QED
    BY <1>1, <1>2

LEMMA SpentStays ==
    ASSUME CacheInv, BuiltInv, Aged, revision' \in Nat,
           CurrentTable' \in Seq(TableRoutes \cup {NoRouter})
    PROVE  \A k \in built : /\ Spent(k) => Spent(k)'
                            /\ k[1] < revision => k[1] < revision'
                            /\ Prefix(k[2]) => Prefix(k[2])'
                            /\ k[1] <= revision => k[1] <= revision'
                            /\ Len(k[2]) < Len(CurrentTable)
                                  => Len(k[2]) < Len(CurrentTable')
  <1> SUFFICES ASSUME NEW k \in built
               PROVE  /\ Spent(k) => Spent(k)'
                      /\ k[1] < revision => k[1] < revision'
                      /\ Prefix(k[2]) => Prefix(k[2])'
                      /\ k[1] <= revision => k[1] <= revision'
                      /\ Len(k[2]) < Len(CurrentTable) => Len(k[2]) < Len(CurrentTable')
    OBVIOUS
  <1>1. /\ k[1] \in Nat /\ k[2] \in Table /\ Len(k[2]) \in Nat
        /\ revision \in Nat /\ Len(CurrentTable) \in Nat /\ Len(CurrentTable') \in Nat
    BY CurrentTableType
       DEF BuiltInv, Table, CacheInv, ModuleInv, SourcesInv, TypeInv, RegistryTypeOK
  <1> QED
    BY <1>1 DEF Aged, Spent

\* What does not touch a request, the cache or the keys keeps what is known of them.
LEMMA AgeKeepsKeys ==
    ASSUME CacheInv, CacheInv', BuiltInv, Aged, UNCHANGED <<cache, built>>,
           NEW q \in Requests, req'[q] = req[q]
    PROVE  KeyInv(q)'
  <1>1. revision' \in Nat /\ CurrentTable' \in Seq(TableRoutes \cup {NoRouter})
    BY NextTypes
  <1>2. req[q].table \in Table
    BY DEF CacheInv, ModuleInv, RequestsInv, Request
  <1>3. Prefix(req[q].table) => Prefix(req[q].table)'
    BY <1>2 DEF Aged
  <1> QED
    BY <1>1, <1>3, SpentStays DEF BuiltInv, KeyInv, Cached, InCache

LEMMA ApplicationKeepsBuilt ==
    ASSUME BuildInv, CacheInv', Application
    PROVE  BuiltInv'
  <1> USE DEF BuildInv
  <1>1. ASSUME NEW rt \in Routers \cup {NoRouter}, CaptureRouter(rt)
        PROVE  BuiltInv'
    <2>1. built' = {} /\ builds' = 0 /\ req' = req /\ ~cache'.valid /\ generationMu = Free
      BY <1>1 DEF CaptureRouter, NoGeneration, EmptyCache
    <2>2. \A q \in Requests : Cached(q) => req[q].pc \notin AtTable
      BY <2>1, ModuleAssumption DEF Exclusion, HolderInv, AtTable
    <2>3. \A q \in Requests : KeyInv(q)'
      BY <2>1, <2>2 DEF KeyInv, Cached, AtTable
    <2>4. IsFiniteSet(built') /\ builds' = Cardinality(built')
      BY <2>1, FS_EmptySet
    <2> QED
      BY <2>1, <2>3, <2>4 DEF BuiltInv, NoKeyIsBuiltTwice
  <1>2. ASSUME \A rt \in Routers \cup {NoRouter} : ~CaptureRouter(rt)
        PROVE  BuiltInv'
    <2>1. Aged /\ UNCHANGED <<req, cache, built, builds>>
      BY <1>2, ApplicationAges DEF CacheInv
    <2>2. \A q \in Requests : KeyInv(q)'
      BY <2>1, AgeKeepsKeys
    <2>3. revision' \in Nat /\ CurrentTable' \in Seq(TableRoutes \cup {NoRouter})
      BY NextTypes
    <2>4. cache.valid => Prefix(cache.table)'
      BY <2>1 DEF BuiltInv, Aged, CacheInv, ModuleInv, RequestsInv, Cache
    <2> QED
      BY <2>1, <2>2, <2>3, <2>4, SpentStays
         DEF BuiltInv, NoKeyIsBuiltTwice, Building, Cached, InCache
  <1> QED
    BY <1>1, <1>2

LEMMA RequestAges ==
    ASSUME CacheInv, NEW q \in Requests, RequestSteps(q)
    PROVE  Aged /\ UNCHANGED <<revision, CurrentTable>> /\ (\A t : Prefix(t)' <=> Prefix(t))
  <1>1. UNCHANGED <<revision, CurrentTable>>
    BY RequestMovesAlone DEF CacheInv, Version
  <1>2. \A t : Prefix(t)' <=> Prefix(t)
    BY <1>1 DEF Prefix
  <1>3. revision <= revision' /\ Len(CurrentTable) <= Len(CurrentTable')
    BY <1>1, CurrentTableType
       DEF CacheInv, ModuleInv, SourcesInv, TypeInv, RegistryTypeOK
  <1> QED
    BY <1>1, <1>2, <1>3 DEF Aged

\* Only the holder of the lock touches the cache or the keys.
LEMMA OthersKeepKeys ==
    ASSUME BuildInv, CacheInv', NEW q \in Requests, RequestSteps(q),
           NEW other \in Requests \ {q}
    PROVE  KeyInv(other)'
  <1> USE DEF BuildInv
  <1>1. Aged /\ req'[other] = req[other]
    BY RequestAges, RequestMovesAlone DEF CacheInv
  <1>2. CASE UNCHANGED <<cache, built>>
    BY <1>1, <1>2, AgeKeepsKeys
  <1>3. CASE ~UNCHANGED <<cache, built>>
    <2>1. Cached(q) /\ req[q].pc \in {"build", "fingerprint"}
      BY <1>3 DEF RequestSteps, Proceed, Ask, Lock, ReadRouter, ReadTable, LookUp, ReadRevision,
                  ReadList, Build, CheckRevision, CheckTable, Report, Return, moduleHistory,
                  Exclusion, HolderInv
    <2>2. generationMu = q
      BY <2>1 DEF Exclusion, HolderInv
    <2>3. Cached(other) => req[other].pc \in {"idle", "lock"}
      BY <2>2 DEF Exclusion, HolderInv
    <2> QED
      BY <1>1, <2>3 DEF KeyInv, Cached
  <1> QED
    BY <1>2, <1>3

LEMMA RequestKeepsBuilt ==
    ASSUME BuildInv, CacheInv', NEW q \in Requests, RequestSteps(q)
    PROVE  BuiltInv'
  <1> USE DEF BuildInv
  <1>0. /\ KeyInv(q) /\ HolderInv(q) /\ RequestInv(q)
        /\ req[q] \in Request /\ req \in [Requests -> Request]
    BY DEF BuiltInv, Exclusion, CacheInv, ModuleInv, RequestsInv
  <1>1. Aged /\ UNCHANGED <<revision, CurrentTable>> /\ (\A t : Prefix(t)' <=> Prefix(t))
        /\ (\A k : Spent(k)' <=> Spent(k))
    BY RequestAges DEF Spent
  <1>2. \A other \in Requests \ {q} : /\ KeyInv(other)'
                                      /\ Building(other)' <=> Building(other)
    BY OthersKeepKeys, RequestMovesAlone DEF CacheInv, Building, Cached
  <1>3. /\ revision \in Nat /\ req[q].revision \in Nat /\ req[q].revision <= revision
        /\ req[q].table \in Table /\ Len(req[q].table) \in Nat /\ Len(CurrentTable) \in Nat
        /\ \A k \in built : k[1] \in Nat /\ k[2] \in Table /\ Len(k[2]) \in Nat
    <2>1. \A t \in Table : Len(t) \in Nat
      BY DEF Table
    <2>2. revision \in Nat /\ req[q].revision \in Nat /\ req[q].table \in Table
      BY <1>0 DEF CacheInv, ModuleInv, SourcesInv, TypeInv, RegistryTypeOK, Request
    <2>3. req[q].revision <= revision
      BY DEF CacheInv, NoFutureRevision
    <2>4. Len(CurrentTable) \in Nat
      BY CurrentTableType, <2>1 DEF CacheInv, ModuleInv
    <2>5. \A k \in built : k[1] \in Nat /\ k[2] \in Table
      BY DEF BuiltInv
    <2> QED
      BY <2>1, <2>2, <2>3, <2>4, <2>5
  <1>4. Cached(q) /\ req[q].pc \in AtTable
           => tables[req[q].router] = CurrentTable /\ CurrentTable \in Table
    BY <1>0, ModuleAssumption, CurrentTableType DEF RouterInv, AtTable, RequestInv, CacheInv
  <1>5. ASSUME UNCHANGED <<cache, built, builds>>, KeyInv(q)',
               Building(q) /\ ~Building(q)' => \A k \in built : Spent(k) \/ InCache(k)
        PROVE  BuiltInv'
    BY <1>1, <1>2, <1>5 DEF BuiltInv, NoKeyIsBuiltTwice, InCache
  <1>6. CASE (\E kind \in Kinds : Ask(q, kind)) \/ Lock(q) \/ ReadRouter(q) \/ Report(q) \/ Return(q)
    <2>1. UNCHANGED <<cache, built, builds>>
      BY <1>6 DEF Ask, Lock, ReadRouter, Report, Return, moduleHistory
    <2>2. ~Building(q)
      BY <1>6 DEF Ask, Lock, ReadRouter, Report, Return, Building
    <2>3. req'[q].pc \in {"lock", "router", "table", "report", "return", "idle"}
      <3>1. CASE \E kind \in Kinds : Ask(q, kind)
        BY <1>0, <3>1 DEF Ask
      <3>2. CASE Lock(q)
        BY <1>0, <3>2 DEF Lock
      <3>3. CASE ReadRouter(q)
        BY <1>0, <3>3 DEF ReadRouter, Request
      <3>4. CASE Report(q)
        BY <1>0, <3>4 DEF Report
      <3>5. CASE Return(q)
        BY <1>0, <3>5 DEF Return, Waiting
      <3> QED
        BY <1>6, <3>1, <3>2, <3>3, <3>4, <3>5
    <2>4. KeyInv(q)'
      BY <2>3 DEF KeyInv
    <2> QED
      BY <1>5, <2>1, <2>2, <2>4
  <1>7. CASE ReadTable(q)
    <2>1. /\ UNCHANGED <<cache, built, builds>> /\ ~Building(q)
          /\ Cached(q)' <=> Cached(q)
          /\ Cached(q) => req'[q].pc = "key"
      BY <1>0, <1>7 DEF ReadTable, Building, Cached, Request, moduleHistory
    <2>2. ASSUME Cached(q)
          PROVE  KeyInv(q)'
      <3>1. req'[q].table = CurrentTable /\ CurrentTable \in Table /\ Prefix(CurrentTable)
        BY <1>0, <1>3, <1>4, <1>7, <2>2 DEF ReadTable, AtTable, Request, Prefix
      <3>2. \A r \in Requests : ~Building(r)
        BY <1>0, <1>7, <2>2 DEF ReadTable, HolderInv, Exclusion, Building
      <3>3. \A k \in built : Len(k[2]) <= Len(CurrentTable) /\ (Spent(k) \/ InCache(k))
        BY <3>2 DEF BuiltInv, Prefix
      <3> QED
        BY <1>1, <2>1, <2>2, <3>1, <3>3 DEF KeyInv, Spent, InCache
    <2>3. KeyInv(q)'
      BY <2>1, <2>2 DEF KeyInv
    <2> QED
      BY <1>5, <2>1, <2>3
  <1>8. CASE LookUp(q)
    <2>1. UNCHANGED <<cache, built, builds>> /\ ~Building(q) /\ Cached(q)
      BY <1>0, <1>8 DEF LookUp, Building, HolderInv
    <2>2. CASE req'[q].pc = "report"
      <3>1. KeyInv(q)'
        BY <2>2 DEF KeyInv
      <3> QED
        BY <1>5, <2>1, <3>1
    <2>3. CASE ~Hit(q) /\ req'[q].pc = "attempt"
      <3>1. ASSUME NEW k \in built
            PROVE  Spent(k)
        <4>1. /\ Len(k[2]) <= Len(req[q].table) /\ Prefix(k[2]) /\ k[1] <= revision
              /\ k[1] < revision \/ Len(k[2]) < Len(req[q].table) \/ InCache(k)
              /\ Prefix(req[q].table)
          BY <1>0, <1>8, <2>1 DEF LookUp, KeyInv, BuiltInv
        <4>2. Len(req[q].table) <= Len(CurrentTable)
          BY <4>1 DEF Prefix
        <4>3. CASE InCache(k) /\ k[1] = revision
          <5>1. k[2] # req[q].table
            BY <2>3, <4>3 DEF Hit, InCache
          <5>2. Len(k[2]) # Len(req[q].table)
            BY <1>3, <4>1, <5>1, PrefixesAgree
          <5> QED
            BY <1>3, <4>1, <4>2, <5>2 DEF Spent
        <4> QED
          BY <1>3, <4>1, <4>2, <4>3 DEF Spent
      <3>2. KeyInv(q)'
        BY <1>1, <2>1, <2>3, <3>1 DEF KeyInv
      <3> QED
        BY <1>5, <2>1, <3>2
    <2> QED
      BY <1>0, <1>8, <2>2, <2>3 DEF LookUp, Request
  <1>9. CASE ReadRevision(q)
    <2>1. /\ UNCHANGED <<cache, built, builds>> /\ Cached(q) /\ Cached(q)'
          /\ req'[q].pc = "list" /\ req'[q].revision = revision
      BY <1>0, <1>9 DEF ReadRevision, HolderInv, Cached, Request, moduleHistory
    <2>2. \A k \in built : Spent(k)
      BY <1>0, <1>9, <2>1 DEF ReadRevision, KeyInv
    <2>3. KeyInv(q)'
      BY <1>1, <2>1, <2>2 DEF KeyInv, Spent
    <2> QED
      BY <1>5, <2>1, <2>2, <2>3
  <1>10. CASE ReadList(q)
    <2>1. /\ UNCHANGED <<cache, built, builds>> /\ Cached(q) /\ Cached(q)'
          /\ req'[q].pc = "build" /\ req'[q].revision = req[q].revision
          /\ req'[q].table = CurrentTable /\ Prefix(CurrentTable)
      BY <1>0, <1>3, <1>4, <1>10
         DEF ReadList, HolderInv, Cached, Request, AtTable, Prefix, moduleHistory
    <2>2. KeyInv(q)'
      BY <1>0, <1>1, <1>10, <2>1 DEF ReadList, KeyInv
    <2> QED
      BY <1>5, <2>1, <2>2 DEF Building
  <1>11. CASE Build(q)
    <2>1. CASE ~Cached(q)
      <3>1. UNCHANGED <<cache, built, builds>> /\ ~Building(q) /\ req'[q].pc = "report"
        BY <1>0, <1>11, <2>1 DEF Build, Building, Request
      <3>2. KeyInv(q)'
        BY <3>1 DEF KeyInv
      <3> QED
        BY <1>5, <3>1, <3>2
    <2>2. CASE Cached(q)
      <3> DEFINE key == <<req[q].revision, req[q].table>>
      <3>1. /\ UNCHANGED cache /\ Building(q)' /\ Cached(q)' /\ req'[q].pc = "revision"
            /\ req'[q].revision = req[q].revision /\ req'[q].table = req[q].table
            /\ built' = built \cup {key} /\ builds' = builds + 1
        BY <1>0, <1>11, <2>2 DEF Build, Building, Cached, Request
      <3>2. \A k \in built : k[1] < req[q].revision \/ Len(k[2]) < Len(req[q].table)
        BY <1>0, <1>11, <2>2 DEF Build, KeyInv
      <3>3. Prefix(req[q].table) /\ Len(req[q].table) <= Len(CurrentTable)
        BY <1>0, <1>11, <2>2 DEF Build, KeyInv, Prefix
      <3>4. key \notin built
        BY <1>3, <3>2
      <3>5. IsFiniteSet(built') /\ NoKeyIsBuiltTwice'
        <4>1. IsFiniteSet(built) /\ builds = Cardinality(built)
          BY DEF BuiltInv, NoKeyIsBuiltTwice
        <4> HIDE DEF key
        <4> QED
          BY <3>1, <3>4, <4>1, FS_AddElement DEF NoKeyIsBuiltTwice
      <3>6. \A k \in built : Spent(k)
        BY <1>3, <3>2, <3>3 DEF Spent
      <3>7. KeyInv(q)'
        BY <1>1, <3>1, <3>3, <3>6 DEF KeyInv
      <3>8. /\ key \in Nat \X Table /\ key[1] <= revision /\ Prefix(key[2])
        BY <1>3, <3>3
      <3>9. \A k \in built' : k[1] <= revision' /\ Prefix(k[2])'
        BY <1>1, <3>1, <3>8 DEF BuiltInv
      <3>10. built' \subseteq Nat \X Table
        BY <3>1, <3>8 DEF BuiltInv
      <3>11. cache'.valid => Prefix(cache.table)'
        BY <1>1, <3>1 DEF BuiltInv
      <3> QED
        BY <1>2, <3>1, <3>5, <3>7, <3>9, <3>10, <3>11 DEF BuiltInv
    <2> QED
      BY <2>1, <2>2
  <1>12. CASE CheckRevision(q)
    <2>1. /\ UNCHANGED <<cache, built, builds>> /\ Cached(q) /\ Cached(q)'
          /\ req'[q].revision = req[q].revision /\ req'[q].table = req[q].table
          /\ \/ req'[q].pc = "fingerprint"
             \/ req[q].revision # revision /\ req'[q].pc \in {"attempt", "report"}
      BY <1>0, <1>12 DEF CheckRevision, SameRevision, RetryOrGiveUp, HolderInv, Cached, Request,
                         moduleHistory
    <2>2. CASE req'[q].pc = "fingerprint"
      <3>1. KeyInv(q)'
        BY <1>0, <1>1, <1>12, <2>1, <2>2 DEF CheckRevision, KeyInv
      <3> QED
        BY <1>5, <2>1, <2>2, <3>1 DEF Building
    <2>3. CASE req[q].revision # revision /\ req'[q].pc \in {"attempt", "report"}
      <3>1. \A k \in built : Spent(k)
        BY <1>0, <1>3, <1>12, <2>1, <2>3 DEF CheckRevision, KeyInv, Spent
      <3>2. KeyInv(q)'
        BY <1>1, <2>1, <2>3, <3>1 DEF KeyInv
      <3> QED
        BY <1>5, <2>1, <3>1, <3>2
    <2> QED
      BY <2>1, <2>2, <2>3
  <1>13. CASE CheckTable(q)
    <2>1. /\ UNCHANGED <<built, builds>> /\ Cached(q) /\ req[q].pc = "fingerprint"
          /\ tables[req[q].router] = CurrentTable /\ CurrentTable \in Table
          /\ Prefix(req[q].table)
          /\ \A k \in built : Spent(k) \/ k = <<req[q].revision, req[q].table>>
      BY <1>0, <1>4, <1>13 DEF CheckTable, HolderInv, AtTable, KeyInv, moduleHistory
    <2>2. CASE Store(q) /\ req' = [req EXCEPT ![q].pc = "report"]
      <3>1. /\ cache'.valid /\ cache'.revision = req[q].revision /\ cache'.table = req[q].table
            /\ req'[q].pc = "report"
        BY <1>0, <2>2 DEF Store
      <3>2. KeyInv(q)'
        BY <3>1 DEF KeyInv
      <3>3. Prefix(cache.table)'
        BY <1>1, <2>1, <3>1
      <3>4. \A k \in built : Spent(k)' \/ InCache(k)'
        BY <1>1, <2>1, <3>1 DEF InCache
      <3> QED
        BY <1>1, <1>2, <2>1, <3>2, <3>3, <3>4 DEF BuiltInv, NoKeyIsBuiltTwice
    <2>3. CASE req[q].table # CurrentTable /\ RetryOrGiveUp(q) /\ UNCHANGED cache
      <3>1. Len(req[q].table) < Len(CurrentTable)
        <4>1. Prefix(CurrentTable) /\ Len(req[q].table) <= Len(CurrentTable)
          BY <1>3, <2>1 DEF Prefix
        <4> QED
          BY <1>3, <2>1, <2>3, <4>1, PrefixesAgree
      <3>2. \A k \in built : Spent(k)
        BY <2>1, <3>1 DEF Spent
      <3>3. req'[q].pc \in {"attempt", "report"}
        BY <1>0, <2>3 DEF RetryOrGiveUp, Request
      <3>4. KeyInv(q)'
        BY <1>1, <2>1, <3>2, <3>3 DEF KeyInv
      <3> QED
        BY <1>5, <2>1, <2>3, <3>2, <3>4
    <2> QED
      BY <1>13, <2>1, <2>2, <2>3 DEF CheckTable
  <1> QED
    BY <1>6, <1>7, <1>8, <1>9, <1>10, <1>11, <1>12, <1>13 DEF RequestSteps, Proceed

(***************************************************************************)
(* Under the lock no key is ever built twice while a router is captured,  *)
(* however many requests share the cache, however their attempts are      *)
(* disturbed and whether the builds succeed or fail.                       *)
(***************************************************************************)
THEOREM BuildsNothingTwice == ModuleSpec => []NoKeyIsBuiltTwice
  <1>1. BuildInv /\ [ModuleNext]_vars => BuildInv'
    <2> SUFFICES ASSUME BuildInv, [ModuleNext]_vars
                 PROVE  BuildInv'
      OBVIOUS
    <2>1. CacheInv' /\ Exclusion' /\ RouterInv'
      BY CacheInvStep, ExclusionStep, RouterInvStep DEF BuildInv, CacheInv
    <2>2. CASE UNCHANGED vars
      <3>1. UNCHANGED <<revision, CurrentTable, req, cache, built, builds>>
        BY <2>2 DEF vars, registryVars, registryState, moduleState, moduleHistory, CurrentTable
      <3> QED
        BY <2>1, <3>1 DEF BuildInv, BuiltInv, NoKeyIsBuiltTwice, KeyInv, Building, Cached,
                          Spent, InCache, Prefix
    <2> QED
      BY <2>1, <2>2, ApplicationKeepsBuilt, RequestKeepsBuilt
         DEF BuildInv, ModuleNext, RequestSteps
  <1>2. BuildInv => NoKeyIsBuiltTwice
    BY DEF BuildInv, BuiltInv
  <1> QED
    BY <1>1, <1>2, BuildInvInit, PTL DEF ModuleSpec

-----------------------------------------------------------------------------
(***************************************************************************)
(* When every request uses the cache, an outcome that was decided but not *)
(* reported yet is that of the request that holds the lock.                *)
(***************************************************************************)
AllCached == CacheSpec /\ Kinds = {"bytes"}

Deciding == {"attempt", "list", "build", "revision", "fingerprint", "report"}

OutcomeInv ==
    /\ (\A q \in Requests : req[q].pc \notin Deciding) => lastError = latest
    /\ \A q \in Requests : req[q].pc \in {"revision", "fingerprint", "report"}
                            => req[q].data.errors = latest

LEMMA OutcomeInvStep ==
    ASSUME AllCached, ModuleInv, Exclusion, OutcomeInv, [ModuleNext]_vars
    PROVE  OutcomeInv'
  <1> USE DEF ModuleInv, RequestsInv
  <1>1. CASE UNCHANGED <<req, lastError, latest>>
    BY <1>1 DEF OutcomeInv
  <1>2. Application => UNCHANGED <<req, lastError, latest>>
    BY DEF Application, RegistryStep, moduleState, RegisterRoute, CaptureRouter, MountEndpoint
  <1>3. ASSUME NEW q \in Requests, RequestSteps(q)
        PROVE  OutcomeInv'
    <2>0. /\ req[q] \in Request /\ req \in [Requests -> Request]
          /\ \A other \in Requests \ {q} : req'[other] = req[other]
      BY <1>3, RequestMovesAlone
    <2>1. ASSUME UNCHANGED <<lastError, latest>>,
                 req[q].pc \in Deciding <=> req'[q].pc \in Deciding,
                 req'[q].pc \in {"revision", "fingerprint", "report"}
                    => req'[q].data.errors = latest
          PROVE  OutcomeInv'
      BY <2>0, <2>1 DEF OutcomeInv
    \* Between the lock and the return there is one request.
    <2>2. ASSUME req[q].pc \notin {"idle", "lock"}
          PROVE  \A other \in Requests \ {q} : req[other].pc \notin Deciding
      <3>1. Cached(q) /\ generationMu = q
        BY <2>2 DEF Exclusion, HolderInv, AllCached, Cached
      <3> QED
        BY <3>1 DEF Exclusion, HolderInv, AllCached, Cached, Deciding
    <2>3. CASE \E kind \in Kinds : Ask(q, kind)
      BY <2>0, <2>1, <2>3 DEF Ask, Waiting, Deciding
    <2>4. CASE Lock(q)
      BY <2>0, <2>1, <2>4 DEF Lock, Deciding, moduleHistory
    <2>5. CASE ReadRouter(q)
      <3>1. CASE router = NoRouter
        <4>1. /\ req'[q].pc = "report" /\ req'[q].data = NotCaptured
              /\ latest' = NotCaptured.errors
          BY <2>0, <2>5, <3>1 DEF ReadRouter, Request
        <4>2. \A other \in Requests \ {q} : req[other].pc \notin Deciding
          BY <2>2, <2>5 DEF ReadRouter
        <4> QED
          BY <2>0, <4>1, <4>2 DEF OutcomeInv, Deciding
      <3>2. CASE router # NoRouter
        <4>1. req[q].pc = "router" /\ req'[q].pc = "table" /\ UNCHANGED <<lastError, latest>>
          BY <2>0, <2>5, <3>2 DEF ReadRouter, Request
        <4> QED
          BY <2>1, <4>1 DEF Deciding
      <3> QED
        BY <3>1, <3>2
    <2>6. CASE ReadTable(q)
      <3>1. Cached(q)
        BY <2>6 DEF ReadTable, Exclusion, HolderInv, AllCached, Cached
      <3> QED
        BY <2>0, <2>1, <2>6, <3>1 DEF ReadTable, Deciding, moduleHistory
    <2>7. CASE LookUp(q)
      <3>0. \A other \in Requests \ {q} : req[other].pc \notin Deciding
        BY <2>2, <2>7 DEF LookUp
      <3>1. CASE req'[q].pc = "report" /\ req'[q].data = cache.data /\ latest' = cache.data.errors
        BY <2>0, <3>0, <3>1 DEF OutcomeInv, Deciding
      <3>2. CASE req'[q].pc = "attempt" /\ latest' = latest
        BY <2>0, <3>0, <3>2 DEF OutcomeInv, Deciding
      <3> QED
        BY <2>0, <2>7, <3>1, <3>2 DEF LookUp, Request
    <2>8. CASE ReadRevision(q)
      BY <2>0, <2>1, <2>8 DEF ReadRevision, Deciding, moduleHistory
    <2>9. CASE ReadList(q)
      BY <2>0, <2>1, <2>9 DEF ReadList, Deciding, moduleHistory
    <2>10. CASE Build(q)
      <3>1. /\ req'[q].pc \in {"revision", "report"} /\ req'[q].data.errors = latest'
        BY <2>0, <2>10 DEF Build, Request
      <3>2. \A other \in Requests \ {q} : req[other].pc \notin Deciding
        BY <2>2, <2>10 DEF Build
      <3> QED
        BY <2>0, <3>1, <3>2 DEF OutcomeInv, Deciding
    <2>11. CASE CheckRevision(q)
      <3>1. req'[q].pc \in {"fingerprint", "attempt", "report"} /\ req'[q].data = req[q].data
        BY <2>0, <2>11 DEF CheckRevision, RetryOrGiveUp, Request
      <3> QED
        BY <2>0, <2>1, <2>11, <3>1 DEF CheckRevision, OutcomeInv, Deciding, moduleHistory
    <2>12. CASE CheckTable(q)
      <3>1. req'[q].pc \in {"attempt", "report"} /\ req'[q].data = req[q].data
        BY <2>0, <2>12 DEF CheckTable, RetryOrGiveUp, Request
      <3> QED
        BY <2>0, <2>1, <2>12, <3>1 DEF CheckTable, OutcomeInv, Deciding, moduleHistory
    <2>13. CASE Report(q)
      <3>1. req'[q].pc = "return" /\ lastError' = latest' /\ latest' = latest
        BY <2>0, <2>13 DEF Report, SetLastError, OutcomeInv, moduleHistory
      <3>2. \A other \in Requests \ {q} : req[other].pc \notin Deciding
        BY <2>2, <2>13 DEF Report
      <3> QED
        BY <2>0, <3>1, <3>2 DEF OutcomeInv, Deciding
    <2>14. CASE Return(q)
      BY <2>0, <2>1, <2>14 DEF Return, Waiting, Deciding
    <2> QED
      BY <1>3, <2>3, <2>4, <2>5, <2>6, <2>7, <2>8, <2>9, <2>10, <2>11, <2>12, <2>13, <2>14
         DEF RequestSteps, Proceed
  <1> QED
    BY <1>1, <1>2, <1>3 DEF ModuleNext, RequestSteps, vars, moduleState, moduleHistory

(***************************************************************************)
(* When every request uses the cache, the lock orders what the requests   *)
(* leave for Diagnose: once none is in progress it reports the outcome    *)
(* that was decided last.                                                  *)
(***************************************************************************)
THEOREM CachedDiagnosticIsLatest ==
    ASSUME AllCached
    PROVE  ModuleSpec => []DiagnosticIsLatest
  <1>1. ModuleInit => OutcomeInv
    BY DEF ModuleInit, OutcomeInv, Waiting
  <1>2. ModuleInv /\ Exclusion /\ OutcomeInv /\ [ModuleNext]_vars
           => (ModuleInv /\ Exclusion /\ OutcomeInv)'
    BY ModuleInvStep, ExclusionStep, OutcomeInvStep
  <1>3. OutcomeInv => DiagnosticIsLatest
    BY DEF OutcomeInv, DiagnosticIsLatest, Deciding
  <1> QED
    BY <1>1, <1>2, <1>3, ModuleInvInit, ExclusionInit, PTL DEF ModuleSpec

-----------------------------------------------------------------------------
(***************************************************************************)
(* A request takes its steps in the order of StepsLeft: going back to a   *)
(* new attempt spends one, and the attempts are three.                     *)
(***************************************************************************)
LEMMA RequestAdvances ==
    ASSUME ModuleInv, Exclusion, NEW q \in Requests, req[q].pc # "idle", RequestSteps(q)
    PROVE  StepsLeft(req'[q]) < StepsLeft(req[q])
  <1>1. PICK old \in Request : old = req[q]
    BY DEF ModuleInv, RequestsInv
  <1>2. /\ old.pc \in Steps \ {"idle"} /\ old.attempts \in 0 .. 3
        /\ old.pc = "attempt" => old.attempts < 3
        /\ old.pc \in {"lock", "router", "table", "key"} => old.attempts = 0
        /\ old.pc \in {"lock", "key", "attempt", "list", "revision", "fingerprint"}
              => CacheSpec /\ old.kind = "bytes"
    BY <1>1 DEF Request, ModuleInv, RequestsInv, RequestInv, Exclusion, HolderInv, Cached,
                Attempts
  <1>3. req \in [Requests -> Request]
    BY DEF ModuleInv, RequestsInv
  <1>4. Lock(q) \/ Proceed(q)
    BY Zenon DEF RequestSteps, Ask
  <1>5. QED
    <2> USE <1>1, <1>2, <1>3 DEF StepsLeft, Attempts, Cached, Request
    <2>1. CASE Lock(q)
      BY <2>1 DEF Lock
    <2>2. CASE ReadRouter(q)
      BY <2>2 DEF ReadRouter
    <2>3. CASE ReadTable(q)
      BY <2>3 DEF ReadTable
    <2>4. CASE LookUp(q)
      BY <2>4 DEF LookUp
    <2>5. CASE ReadRevision(q)
      BY <2>5 DEF ReadRevision
    <2>6. CASE ReadList(q)
      BY <2>6 DEF ReadList
    <2>7. CASE Build(q)
      BY <2>7 DEF Build
    <2>8. CASE CheckRevision(q)
      BY <2>8 DEF CheckRevision, RetryOrGiveUp
    <2>9. CASE CheckTable(q)
      BY <2>9 DEF CheckTable, RetryOrGiveUp
    <2>10. CASE Report(q)
      BY <2>10 DEF Report
    <2>11. CASE Return(q)
      BY <2>11 DEF Return, Waiting
    <2> QED
      BY <1>4, <2>1, <2>2, <2>3, <2>4, <2>5, <2>6, <2>7, <2>8, <2>9, <2>10, <2>11 DEF Proceed

(***************************************************************************)
(* Whatever the application does meanwhile, a request in progress has at  *)
(* most 21 steps of its own left, and fewer after each.                    *)
(***************************************************************************)
THEOREM EveryStepLeadsToTheEnd ==
    ModuleSpec => []StepsAreCounted /\ RequestsComeToAnEnd
  <1>1. ModuleInv => StepsAreCounted
    <2> SUFFICES ASSUME ModuleInv, NEW q \in Requests
                 PROVE  StepsLeft(req[q]) \in 0 .. 21
      BY DEF StepsAreCounted
    <2>1. PICK r \in Request : r = req[q]
      BY DEF ModuleInv, RequestsInv
    <2>2. r.pc \in Steps /\ r.attempts \in 0 .. 3
      BY <2>1 DEF Request, Attempts
    <2> QED
      BY <2>1, <2>2 DEF StepsLeft, Attempts, Steps
  <1>2. ModuleInv /\ Exclusion /\ [ModuleNext]_vars
           => [\A q \in Requests : req[q].pc # "idle" /\ req'[q] # req[q]
                  => StepsLeft(req'[q]) < StepsLeft(req[q])]_vars
    <2> SUFFICES ASSUME ModuleInv, Exclusion, [ModuleNext]_vars, NEW q \in Requests,
                        req[q].pc # "idle", req'[q] # req[q]
                 PROVE  StepsLeft(req'[q]) < StepsLeft(req[q])
      OBVIOUS
    <2>1. PICK p \in Requests : RequestSteps(p)
      <3>1. UNCHANGED vars \/ Application => UNCHANGED req
        BY DEF Application, RegistryStep, moduleState, RegisterRoute, CaptureRouter,
               MountEndpoint, vars
      <3> QED
        BY <3>1 DEF ModuleNext, RequestSteps
    <2>2. p = q
      BY <2>1, RequestMovesAlone
    <2> QED
      BY <2>1, <2>2, RequestAdvances
  <1> QED
    BY <1>1, <1>2, ModuleInvInit, ModuleInvStep, ExclusionInit, ExclusionStep, PTL
       DEF ModuleSpec, RequestsComeToAnEnd
=============================================================================
