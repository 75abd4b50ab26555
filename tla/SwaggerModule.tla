--------------------------- MODULE SwaggerModule ----------------------------
(***************************************************************************)
(* The module that serves the document (module.go): Routes captures the   *)
(* application's router, GenerateJSON and the specification endpoint share*)
(* specificationBytes and its cache, Generate builds without the cache,   *)
(* and every one of them leaves its outcome for Diagnose.                 *)
(*                                                                         *)
(* A request is split where the code lets another goroutine in: each read *)
(* of the router, of its route list, of the registry's revision and of its*)
(* snapshot takes its own lock and is a step of its own.  Clients keep    *)
(* registering routes and documentation meanwhile (module Registry).      *)
(*                                                                         *)
(* The routes of one router only ever grow, and a route's public metadata *)
(* does not change while the application serves (architecture.md: mutating*)
(* a route concurrently with generation is outside the contract), so the  *)
(* route fingerprint is the route list itself.                            *)
(***************************************************************************)
EXTENDS Registry

CONSTANTS Requests,       \* goroutines that ask for the document
          Kinds,          \* what they call: "bytes" or "document"
          Routers,        \* routers Routes may be called with
          NoRouter,       \* the router before Routes is called
          Endpoints,      \* how many routes of its own the module registers
          CacheSpec,      \* Config.CacheSpec
          Document(_, _), \* generation: a route list and a snapshot to an outcome
          Free,           \* nobody holds generationMu
          MaxRequests,    \* bound: calls one requester makes
          MaxCaptures     \* bound: calls of Routes

ASSUME ModuleAssumption ==
    /\ Kinds \subseteq {"bytes", "document"}
    /\ NoRouter \notin Routers \cup Routes \cup (Routers \X (1 .. Endpoints))
    /\ Endpoints \in Nat
    /\ CacheSpec \in BOOLEAN
    /\ Free \notin Requests
    /\ MaxRequests \in Nat
    /\ MaxCaptures \in Nat

\* The loop of specificationBytes gives up caching after this many builds.
Attempts == 3

VARIABLES router,        \* router: the captured router
          tables,        \* every router's route list
          mounting,      \* the endpoints Routes has still to register
          captures,      \* how often Routes was called
          generationMu,  \* the holder of generationMu
          cache,         \* cache
          lastError,     \* lastError: the errors of an outcome, {} for nil
          req,           \* the requesters' local variables
          window,        \* history: what each open request could have seen
          built,         \* history: the keys built for since the last capture
          builds,        \* history: how many builds that took
          latest         \* history: the errors of the outcome decided last

moduleState == <<router, tables, mounting, captures, generationMu, cache, lastError, req>>
moduleHistory == <<window, built, builds, latest>>
vars == <<registryVars, moduleState, moduleHistory>>

TableRoutes == Routes \cup (Routers \X (1 .. Endpoints))

NoTable == <<NoRouter>>

CurrentTable == IF router = NoRouter THEN NoTable ELSE tables[router]

(***************************************************************************)
(* An outcome is what a generation returns: a set of errors, and a body   *)
(* when the set is empty.  Before Routes is called there is only an error.*)
(***************************************************************************)
NotCaptured == [errors |-> {<<"absent", NoRouter>>}, body |-> {}]

Describe(table, version) ==
    IF table = NoTable THEN NotCaptured ELSE Document(table, version.content)

\* What the module knows the registry's content by: a call that repeats a change makes
\* a new version of the same content, and disturbs a request as any other does.
Version == [content |-> Content, revision |-> revision]

EmptyCache == [valid |-> FALSE, revision |-> 0, table |-> <<>>, data |-> NotCaptured]

Waiting == [pc |-> "idle", kind |-> "bytes", asked |-> 0, revision |-> 0,
            router |-> NoRouter, table |-> <<>>, data |-> NotCaptured, attempts |-> 0]

Steps == {"idle", "lock", "router", "table", "key", "attempt", "list", "build",
          "revision", "fingerprint", "report", "return"}

Registered(r) == \E rt \in Routers : \E i \in DOMAIN tables[rt] : tables[rt][i] = r

\* A torn answer takes a change of the table and then one of the registry in
\* the only build, or in the last of a cached request, whose other attempts
\* take a change each to fail.
Patience == IF CacheSpec /\ Kinds = {"bytes"} THEN Attempts + 1 ELSE 2

\* The answer a request carries from the moment it is decided.
Reply == [q \in Requests |-> IF req[q].pc \in {"report", "return"}
                              THEN <<req[q].data>> ELSE <<>>]

Service == INSTANCE DocumentService
           WITH Callers <- Requests, table <- CurrentTable, content <- Version,
                call <- window, answer <- Reply

ModuleTypeOK ==
    /\ RegistryTypeOK
    /\ router \in Routers \cup {NoRouter}
    /\ tables \in [Routers -> Seq(TableRoutes)]
    /\ mounting \in 0 .. Endpoints
    /\ captures \in 0 .. MaxCaptures
    /\ generationMu \in Requests \cup {Free}
    /\ cache.valid \in BOOLEAN
    /\ cache.revision \in Nat
    /\ cache.table \in Seq(TableRoutes)
    /\ \A q \in Requests :
          /\ req[q].pc \in Steps
          /\ req[q].kind \in Kinds \cup {"bytes"}
          /\ req[q].asked \in 0 .. MaxRequests
          /\ req[q].revision \in Nat
          /\ req[q].router \in Routers \cup {NoRouter}
          /\ req[q].table \in Seq(TableRoutes)
          /\ req[q].attempts \in 0 .. Attempts

ModuleInit ==
    /\ RegistryInit
    /\ router = NoRouter
    /\ tables = [rt \in Routers |-> <<>>]
    /\ mounting = 0
    /\ captures = 0
    /\ generationMu = Free
    /\ cache = EmptyCache
    /\ lastError = {}
    /\ req = [q \in Requests |-> Waiting]
    /\ window = [q \in Requests |-> Service!NoCall]
    /\ built = {}
    /\ builds = 0
    /\ latest = {}

\* Every open request sees a change of the table or of the registry.
Observe ==
    window' = [q \in Requests |->
                 IF window[q].open /\ <<CurrentTable, Version>>' # <<CurrentTable, Version>>
                 THEN Service!Observed(window[q])
                 ELSE window[q]]

-----------------------------------------------------------------------------
(* The application: it documents routes it has registered, and registers more. *)

RegistryStep ==
    /\ RegistryNext
    /\ \A r \in builders' \ builders : r = NilRoute \/ Registered(r)
    /\ UNCHANGED <<moduleState, built, builds, latest>>
    /\ Observe

RegisterRoute(c, rt, r) ==
    /\ Call(c)
    /\ ~Registered(r)
    /\ tables' = [tables EXCEPT ![rt] = Append(@, r)]
    /\ UNCHANGED <<registryState, work, history, router, mounting, captures,
                   generationMu, cache, lastError, req, built, builds, latest>>
    /\ Observe

\* Mutant: Routes does not take generationMu.
RoutesUnlocked == TRUE

NoGeneration == generationMu = Free

(***************************************************************************)
(* Routes captures the router and drops the cache under generationMu, then*)
(* registers the module's own endpoints one by one without it.  A nil     *)
(* router takes the captured one away and has no endpoints.               *)
(***************************************************************************)
CaptureRouter(rt) ==
    /\ mounting = 0
    /\ captures < MaxCaptures
    /\ NoGeneration
    /\ router' = rt
    /\ cache' = EmptyCache
    /\ mounting' = IF rt = NoRouter THEN 0 ELSE Endpoints
    /\ captures' = captures + 1
    /\ built' = {}
    /\ builds' = 0
    /\ UNCHANGED <<registryVars, tables, generationMu, lastError, req, latest>>
    /\ Observe

MountEndpoint ==
    /\ mounting > 0
    /\ tables' = [tables EXCEPT ![router] = Append(@, <<router, mounting>>)]
    /\ mounting' = mounting - 1
    /\ UNCHANGED <<registryVars, router, captures, generationMu, cache, lastError, req,
                   built, builds, latest>>
    /\ Observe

-----------------------------------------------------------------------------
(* A request, step by step. *)

Cached(q) == CacheSpec /\ req[q].kind = "bytes"

\* What a step of a request leaves alone unless it says otherwise.
Elsewhere == UNCHANGED <<registryVars, router, tables, mounting, captures>>

Ask(q, kind) ==
    /\ req[q].pc = "idle"
    /\ req[q].asked < MaxRequests
    /\ req' = [req EXCEPT ![q] = [Waiting EXCEPT
                   !.pc = IF CacheSpec /\ kind = "bytes" THEN "lock" ELSE "router",
                   !.kind = kind,
                   !.asked = req[q].asked + 1]]
    /\ window' = [window EXCEPT ![q] =
                     [open    |-> TRUE,
                      tables  |-> {CurrentTable},
                      exact   |-> {Describe(CurrentTable, Version)},
                      mixed   |-> {Describe(CurrentTable, Version)},
                      changes |-> 0]]
    /\ Elsewhere
    /\ UNCHANGED <<generationMu, cache, lastError, built, builds, latest>>

Lock(q) ==
    /\ req[q].pc = "lock"
    /\ generationMu = Free
    /\ generationMu' = q
    /\ req' = [req EXCEPT ![q].pc = "router"]
    /\ Elsewhere
    /\ UNCHANGED <<cache, lastError, moduleHistory>>

\* capturedRouter
ReadRouter(q) ==
    /\ req[q].pc = "router"
    /\ req' = [req EXCEPT ![q].router = router,
                          ![q].pc = IF router = NoRouter THEN "report" ELSE "table",
                          ![q].data = NotCaptured]
    /\ latest' = IF router = NoRouter THEN NotCaptured.errors ELSE latest
    /\ Elsewhere
    /\ UNCHANGED <<generationMu, cache, lastError, window, built, builds>>

ReadTable(q) ==
    /\ req[q].pc = "table"
    /\ req' = [req EXCEPT ![q].table = tables[req[q].router],
                          ![q].pc = IF Cached(q) THEN "key" ELSE "build"]
    /\ Elsewhere
    /\ UNCHANGED <<generationMu, cache, lastError, moduleHistory>>

\* Mutant: the key is the registry revision alone.
HitOnRevision(q) == cache.valid /\ cache.revision = revision

Hit(q) ==
    /\ cache.valid
    /\ cache.revision = revision
    /\ cache.table = req[q].table

LookUp(q) ==
    /\ req[q].pc = "key"
    /\ \/ /\ Hit(q)
          /\ req' = [req EXCEPT ![q].data = cache.data, ![q].pc = "report"]
          /\ latest' = cache.data.errors
       \/ /\ ~Hit(q)
          /\ req' = [req EXCEPT ![q].pc = "attempt"]
          /\ UNCHANGED latest
    /\ Elsewhere
    /\ UNCHANGED <<generationMu, cache, lastError, window, built, builds>>

ReadRevision(q) ==
    /\ req[q].pc = "attempt"
    /\ req' = [req EXCEPT ![q].revision = revision,
                          ![q].attempts = @ + 1,
                          ![q].pc = "list"]
    /\ Elsewhere
    /\ UNCHANGED <<generationMu, cache, lastError, moduleHistory>>

ReadList(q) ==
    /\ req[q].pc = "list"
    /\ req' = [req EXCEPT ![q].table = tables[req[q].router], ![q].pc = "build"]
    /\ Elsewhere
    /\ UNCHANGED <<generationMu, cache, lastError, moduleHistory>>

\* GenerateJSON or Generate: the registry is snapshotted inside.
Build(q) ==
    /\ req[q].pc = "build"
    /\ LET document == Document(req[q].table, Snapshot)
       IN  /\ req' = [req EXCEPT ![q].data = document,
                                 ![q].pc = IF Cached(q) THEN "revision" ELSE "report"]
           /\ latest' = document.errors
    /\ IF Cached(q)
       THEN /\ built' = built \cup {<<req[q].revision, req[q].table>>}
            /\ builds' = builds + 1
       ELSE UNCHANGED <<built, builds>>
    /\ Elsewhere
    /\ UNCHANGED <<generationMu, cache, lastError, window>>

\* Mutant: one attempt more than the loop makes.
RetryOrGiveUpLate(q) ==
    req' = [req EXCEPT ![q].pc = IF req[q].attempts <= Attempts THEN "attempt" ELSE "report"]

RetryOrGiveUp(q) ==
    req' = [req EXCEPT ![q].pc = IF req[q].attempts < Attempts THEN "attempt" ELSE "report"]

SameRevision(q) == req[q].revision = revision

CheckRevision(q) ==
    /\ req[q].pc = "revision"
    /\ IF SameRevision(q)
       THEN req' = [req EXCEPT ![q].pc = "fingerprint"]
       ELSE RetryOrGiveUp(q)
    /\ Elsewhere
    /\ UNCHANGED <<generationMu, cache, lastError, moduleHistory>>

\* Mutant: a generation error is not cached.
StoreDocuments(q) ==
    cache' = IF req[q].data.errors # {}
             THEN cache
             ELSE [valid |-> TRUE, revision |-> req[q].revision,
                   table |-> req[q].table, data |-> req[q].data]

\* Mutant: the key is the revision at the time of storing, not the one that was
\* read before the build.
StoreUnderCurrent(q) ==
    cache' = [valid |-> TRUE, revision |-> revision,
              table |-> req[q].table, data |-> req[q].data]

\* Errors are cached like documents.
Store(q) ==
    cache' = [valid |-> TRUE, revision |-> req[q].revision,
              table |-> req[q].table, data |-> req[q].data]

CheckTable(q) ==
    /\ req[q].pc = "fingerprint"
    /\ \/ /\ req[q].table = tables[req[q].router]
          /\ Store(q)
          /\ req' = [req EXCEPT ![q].pc = "report"]
       \/ /\ req[q].table # tables[req[q].router]
          /\ RetryOrGiveUp(q)
          /\ UNCHANGED cache
    /\ Elsewhere
    /\ UNCHANGED <<generationMu, lastError, moduleHistory>>

\* Mutant: a success does not clear the error of an earlier generation.
KeepLastError(q) ==
    lastError' = IF req[q].data.errors = {} THEN lastError ELSE req[q].data.errors

SetLastError(q) == lastError' = req[q].data.errors

Report(q) ==
    /\ req[q].pc = "report"
    /\ SetLastError(q)
    /\ req' = [req EXCEPT ![q].pc = "return"]
    /\ Elsewhere
    /\ UNCHANGED <<generationMu, cache, moduleHistory>>

\* Mutant: the lock is released on the successful path only.
UnlockOnSuccess(q) ==
    generationMu' = IF generationMu = q /\ req[q].data.errors = {} THEN Free ELSE generationMu

\* The deferred unlock of a cached request.
Unlock(q) == generationMu' = IF generationMu = q THEN Free ELSE generationMu

Return(q) ==
    /\ req[q].pc = "return"
    /\ Unlock(q)
    /\ req' = [req EXCEPT ![q] = [Waiting EXCEPT !.asked = req[q].asked]]
    /\ window' = [window EXCEPT ![q] = Service!NoCall]
    /\ Elsewhere
    /\ UNCHANGED <<cache, lastError, built, builds, latest>>

-----------------------------------------------------------------------------

Application ==
    \/ RegistryStep
    \/ \E c \in Clients, rt \in Routers, r \in Routes : RegisterRoute(c, rt, r)
    \/ \E rt \in Routers \cup {NoRouter} : CaptureRouter(rt)
    \/ MountEndpoint

\* The steps of a request that wait for nobody.
Proceed(q) ==
    \/ ReadRouter(q)
    \/ ReadTable(q)
    \/ LookUp(q)
    \/ ReadRevision(q)
    \/ ReadList(q)
    \/ Build(q)
    \/ CheckRevision(q)
    \/ CheckTable(q)
    \/ Report(q)
    \/ Return(q)

ModuleNext ==
    \/ Application
    \/ \E q \in Requests :
          \/ \E kind \in Kinds : Ask(q, kind)
          \/ Lock(q)
          \/ Proceed(q)

ModuleSpec == ModuleInit /\ [][ModuleNext]_vars

(***************************************************************************)
(* A goroutine that can run is scheduled eventually, and sync.Mutex hands *)
(* itself to a waiter that has waited long enough, so a waiter that finds *)
(* it free again and again gets it.  Nobody is obliged to ask, to document*)
(* or to register anything.                                               *)
(***************************************************************************)
Fairness ==
    \A q \in Requests : WF_vars(Proceed(q)) /\ SF_vars(Lock(q))

FairModuleSpec == ModuleSpec /\ Fairness

-----------------------------------------------------------------------------
(***************************************************************************)
(* What the cache holds is what a build now would produce, whenever its   *)
(* key is the current one ("bytes are never stored under a revision they  *)
(* do not describe").  In particular the spurious "documented route is    *)
(* absent" error of a build that paired an old route list with a newer    *)
(* registry is never kept.                                                *)
(***************************************************************************)
CacheIsSound ==
    cache.valid /\ cache.revision = revision
        => cache.data = Document(cache.table, Content)

(***************************************************************************)
(* The module keeps the promise of DocumentService: every answer pairs a  *)
(* route table and a registry content seen during the request, and is the *)
(* document of one instant unless the request was disturbed Patience      *)
(* times.  A change that was complete before the request began is never   *)
(* missing from its answer, cached or not.                                *)
(***************************************************************************)
AnswersAreCurrent == Service!ServiceSpec

(***************************************************************************)
(* Nothing is built twice under the lock: concurrent requests perform one *)
(* build, a failed generation is not repeated until something changes, and*)
(* a build disturbed by a change is never repeated for the same key.      *)
(***************************************************************************)
NoKeyIsBuiltTwice == builds = Cardinality(built)

(***************************************************************************)
(* Once no request is in progress, Diagnose reports the outcome that was  *)
(* decided last ("A successful later generation clears the diagnostic").  *)
(***************************************************************************)
DiagnosticIsLatest ==
    (\A q \in Requests : req[q].pc = "idle")
        => lastError = latest

(***************************************************************************)
(* Every request is answered, however often clients change the registry   *)
(* or the route table while it builds, and whoever holds the lock.        *)
(***************************************************************************)
EveryRequestIsAnswered ==
    \A q \in Requests : req[q].pc # "idle" ~> req[q].pc = "idle"

\* The steps of its own a request has left at most: what is left of the round it is in,
\* the rounds it may still begin, and the two steps that end it.
StepsLeft(r) ==
    LET rounds == 5 * (Attempts - r.attempts)
    IN  CASE r.pc = "idle"        -> 0
          [] r.pc = "return"      -> 1
          [] r.pc = "report"      -> 2
          [] r.pc = "fingerprint" -> 3 + rounds
          [] r.pc = "revision"    -> 4 + rounds
          [] r.pc = "build"       -> IF CacheSpec /\ r.kind = "bytes" THEN 5 + rounds ELSE 3
          [] r.pc = "list"        -> 6 + rounds
          [] r.pc = "attempt"     -> 2 + rounds
          [] r.pc = "key"         -> 3 + rounds
          [] r.pc = "table"       -> 4 + rounds
          [] r.pc = "router"      -> 5 + rounds
          [] r.pc = "lock"        -> 6 + rounds

\* The number is never negative, and at most 21 when a request has just asked.
StepsAreCounted ==
    \A q \in Requests : StepsLeft(req[q]) \in 0 .. 21

(***************************************************************************)
(* However often clients change the registry or the route list, and who-  *)
(* ever else asks, every step of a request in progress leaves it fewer to *)
(* take: the loop of specificationBytes ends without the fairness that    *)
(* EveryRequestIsAnswered assumes, after 21 steps of its own at most.     *)
(***************************************************************************)
RequestsComeToAnEnd ==
    [][\A q \in Requests : req[q].pc # "idle" /\ req'[q] # req[q]
                              => StepsLeft(req'[q]) < StepsLeft(req[q])]_vars
=============================================================================
