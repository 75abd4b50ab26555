# Verification of the arandu-swagger module

TLA+ models of the Go package in this repository (`registry.go`, `webhooks.go`,
`models.go`, `module.go`, …), TLC runs that check them on small instances, and
TLAPS proofs of the main properties for every instance.

The package documents the routes of an Arandu application: application code
registers routes with a router and describes them through a *registry*; the
*module* captures the router and answers requests for an OpenAPI document, built
lazily from the router's current route list and a snapshot of the registry.

## 1. Inventory

| Component | State | Operations | What is hard | What makes it correct |
|---|---|---|---|---|
| Registry (`registry.go`) | `routes`, `components`, `issues`, `revision`, under `mu` | `Route`, builder `update`, `registerSchema`, `registerComponent`, `recordLocked`, `snapshot`, `Revision` | concurrent clients; a closure that fails half-way; the revision as the only cache key | the revision advances with all visible content; registered content is write-once; a refused change is never published |
| Operation builders (`registry.go`) | the `operationDraft` of a route | 25 builder methods, each a closure run by `update` | order of calls, partial writes before an error | a draft is what the accepted changes make, or an issue blocks generation |
| Webhooks (`webhooks.go`) | `webhooks` of the registry | `Webhooks(batch)`; `generateWebhooks` | batches, duplicates in a batch, conflicts found late | a batch is registered whole or not at all |
| Models (`models.go`) | none of its own | `Registry.Models` | takes the mutex once per name | an outcome stays true; racing registrations do not all refuse each other |
| Model deriver (`models.go`) | `inline` and the schema under way | `SchemasFromModels`, `root`, `of`, `object`, `fields`, `nullable` | recursion over types that refer to themselves, promotion, names that cut the recursion | a schema has the shape of its type; what cannot be said is refused and nothing else; the recursion ends |
| Module (`module.go`) | `router`, `cache` + `generationMu`, `lastError` | `Routes`, `Generate`, `GenerateJSON`, `specificationBytes`, `Diagnose` | route list, revision and snapshot are read under different locks; retry and give-up; recapture | cached bytes describe their key; answers are current; the diagnostic is the latest outcome; every request returns |
| Generator: rows (`generator.go`) | none (pure, over a route list and a snapshot) | `bindDocumentedRoutes`, `methodsForRoute`, filters, `excludedByPackage` | map iteration order, sibling routes of one `Match` | the result depends on its inputs only; ids and method+path are unique |
| Generator: one operation (`generator.go`) | maps of one call: `byName`, `referencesByName`, `referenceKeys`, `seen` | `mergePathParameters`, `resolveParameter`, `resolveSecurityScheme`, `validateOperation`, `validateComponents`, `schemaDeclaresProperty` | chains and circles of references, one parameter declared in several ways, schemas met twice | every resolution ends and is right; parameters fit the path; sound operations are accepted and no others |
| Contract export (`contracts.go`) | `contracts` + `contractsMu`, files on disk | `Contract`, `Commands`, `runExport`, `exportDocuments` | several files, failure or crash between them, registries that change meanwhile | nothing is written unless all generate; `--check` writes nothing |
| Schemas (`schema.go`) | immutable snapshots | `SchemaFrom`, `SchemaFromJSON`, validation | – (pure) | – |
| Configuration (`config.go`) | immutable after `New` | `Validate`, `withDefaults`, `HasTheme`, clones | endpoint paths that collide through a default, switches that depend on each other | what is accepted can be mounted |
| UI, theme, i18n, assets (`internal/ui`, `views.go`) | none | rendering, headers | the pages name paths that `Routes` mounts on conditions | what a page loads is served |
| Security helpers, OpenAPI types | none | constructors, JSON encoding | – (pure) | – |
| Framework router (outside this repository) | the route list | registration, `Routes()` | grows while requests are served | modelled as external: an append-only list |

**Interactions.** Clients call the registry (directly or through the module's
delegating methods) from any goroutine. A request reads the router pointer
(`routerMu`), the route list (the router's own lock), the revision (`mu.RLock`) and
the snapshot (`mu.RLock`, taken inside `generate`) one after the other; nothing
makes these one instant. With `CacheSpec` a request holds `generationMu` for its
whole duration; `Routes` takes it while it replaces the router and drops the
cache. `Generate`, and everything without `CacheSpec`, takes no common lock. Every
outcome goes through `setLastError`, which `Diagnose` reads.

The hazards that follow from this are listed in `PROJECT.json` with the line where
each bites and the properties that cover it.

## 2. Modules

| Module | Models |
|---|---|
| `OperationDraft` | one draft and the effect of every builder method on it, as operators that return the changed draft and whether the closure succeeded |
| `Registry` (extends `OperationDraft`) | the registry as a state machine: one action per critical section of `mu` |
| `DocumentService` | abstract: what a caller that asks for the document is promised |
| `SwaggerModule` (extends `Registry`) | the serving module: one action per lock acquisition or unlocked read of a request; instantiates `DocumentService` with a refinement mapping |
| `Generator` (extends `OperationDraft`) | one generation: drafts bound to the route table in map order, rows turned into operations, webhooks |
| `ContractExport` | the documents a module exports, `openapi:export` and `openapi:export --check`, one action per lock, generation or file operation |
| `References` | the resolution of a reference to a component, one action per call of its recursion |
| `Encodings` | the search of a schema for a property, one action per object visited |
| `Operation` (extends `References`, `Encodings`) | the making of one operation or webhook and the checks of it: the loops that ask for resolutions and searches |
| `Endpoints` | the endpoints of the module: validation of their paths, mounting, exclusion from the document, links of the pages |
| `ModelSchemas` | the derivation of schema components from Go types, one action per step of its recursion |
| `MCRegistry`, `MCSwaggerModule`, `MCGenerator`, `MCContractExport`, `MCModelSchemas`, `MCOperation`, `MCEndpoints` | inputs for TLC, and a small generator for `SwaggerModule` and `ContractExport` |
| `RegistryProofs`, `SwaggerModuleProofs`, `GeneratorProofs`, `ContractExportProofs`, `ModelSchemasProofs`, `ResolutionProofs` (of `References` and `Encodings`), `OperationProofs`, `EndpointsProofs` | theorems |

### Registry

`drafts`, `components`, `webhooks`, `issues`, `revision` are the fields of
`Registry`. `issues` is the length of the list: no code removes an error.
`builders` holds the routes a builder exists for, including the detached builder a
nil route yields. `components` stands for one of the seven component maps: every
kind runs the same check-and-store code on its own map and no operation touches
two. `Invalid` as a value stands for whatever `componentError` refuses (name, empty
schema, failed marshalling). Equality of contents is equality of model values,
because `equalJSON` and `equalSchemaJSON` compare canonical forms.

`Route`, `Update`, `RegisterComponent`, `RegisterWebhooks` are one critical section
and one action each. `Models` is `BeginModels`, then one `RegisterModel` per name in
sorted order, then `ReturnModels`; `work` is the call's local state. `intended` and
`outcomes` are history variables that no guard reads: the drafts accepted changes
alone would make, and what calls returned.

In `OperationDraft` the distinction between a refusal that leaves the draft alone
(a blank `OperationIDFor`, an invalid media type) and one that does not (`OperationID`,
`Tags`, `Methods` write first) is that of the closures. `summary` stands for
description, external documentation and the deprecation mark too: fields replaced
outright.

### SwaggerModule

A request (`req[q]`) holds the locals of `specificationBytes` or `Generate`. The steps
of a cached request are

    lock → router → table → key → attempt → list → build → revision → fingerprint → report → return

with `key → report` on a hit, `revision`/`fingerprint → attempt` on a failed check
(or `→ report` after three attempts), and `router → report` when nothing is captured.
An uncached one goes `router → table → build → report → return`. `Build` takes the
snapshot: it is the one read of the registry inside `generate`. Between any two of
these, clients register routes and documentation (`RegistryStep`, `RegisterRoute`)
and the boot goroutine runs `Routes` (`CaptureRouter`, then `MountEndpoint` for each
route of the module itself, outside the lock).

`Document(_, _)` is a constant: generation is a function of a route list and a
snapshot, and what it computes is a separate component. An outcome is a set of
errors and a body. The TLC instance keeps what the properties can see: a recorded
issue, a documented route absent from the list, and otherwise the listed routes with
their drafts. The proofs hold for every `Document`.

The route fingerprint is the list itself. It hashes the identity and the public
metadata of each route; metadata does not change while the application serves
(`docs/architecture.md` puts that outside the contract), and hash collisions are
not modelled.

`window`, `built`, `builds`, `latest` are history variables: what each open request
could have seen, the keys built for and how many builds that took since the last
capture, and the errors of the outcome decided last.

### DocumentService

The promise: an answer combines a route list and a registry content that were both
current at some moment of the call, the list not later than the content; and if
fewer than `Patience` changes fell into the call, it is the document of one single
instant of it. `Patience` is 2 for an unprotected request (one change of the list
and then one of the registry tear the only build) and 4 for a cached one (each of
the first two attempts needs a change to be rejected, the last one needs two).
Both values are tight: with 3 the run `live` fails, with 5 the run `cached`.
`AnswersAreCurrent` is this specification under the refinement mapping
`table ← CurrentTable`, `content ← Version`, `call ← window`, `answer ← Reply`. `Version`
pairs the content with the revision: a builder call that repeats a change leaves the content
alone but advances the revision, so it disturbs a cached request like any other and has to
count as a change. An unprotected request keeps the router it read. Were `Routes` called a
second time meanwhile, it could list routes the replaced router gained later and answer for a
table that was never current: `live`, which has unprotected requests, calls `Routes` once, and so
does the theorem `ImplementsService` unless all requests are cached.

### Generator

`input` is what `generate` is called with: the route table (a sequence), the drafts of
the snapshot, the configuration that selects rows, and the operationIds of the
webhooks. `gen[g]` holds the locals of one call: the drafts still to visit (`todo`),
`bindings`, the index of the row loop, the operations of the document under way,
`operationIDs` (`ids`) and `issues`. Several generations of one input run side by
side, each free to visit the map in its own order; they share nothing, so the
properties can compare what the same input leads to.

`Bind` and `BindAbsent` are one iteration of `bindDocumentedRoutes`: any draft of
`todo` may come next. `SkipRow` and `DescribeRow` are one iteration of the loop over
the table, which treats a row's methods as the set they are: they are distinct,
and they can only meet in their operationIds. `GenerateWebhooks` ends the call.

A row is a record of what the generator reads of a framework route. `match` and `first`
say what `Methods` returns: all methods of the `Match` on the row it returned, its
own method on the siblings. A pattern stands for its canonical path, which is
faithful because two different patterns that OpenAPI can represent never have
the same one. A filter's prefixes stand for the paths they begin and a
predicate for the set of what it accepts. `Qualified` is the formatting of a
qualified identifier: an ordinary name may equal one, and the TLC instance has a
route named as the qualified form of another.

Left abstract: `OperationIsValid` (the checks of one operation, see `Operation`) and `Unrepresentable` (which patterns `openAPIPath` rejects). Issues that do
not depend on the routes (of the configuration, the components, the registry)
fail every generation of an input alike.

### References, Encodings and Operation

`References` is `resolveParameter`, and `resolveSecurityScheme` with it: the same code on two
maps. A value that may stand in a document is a concrete component or a reference, known
by the name it refers to; `current` and `seen` are the arguments of the call in progress. What
a reference leads to is defined without an order (`LeadsTo`: what is met within every
set closed under following), and `ResolutionIsExact` compares.

`Encodings` is `schemaDeclaresProperty`. Its recursion ends as a whole at the first object that
declares the property or whose `$ref` is broken, and threads `seen` through sibling alternatives,
so its calls are the visits of one walk over `todo`. `Documents` are schemas as JSON nests
them: each object held once, `$ref`s to anywhere but the body's own schema.

`Operation` composes both. The parameters of the draft pass through `collect` (inline ones, and
references once resolved), `Merge` writes the three loops of `mergePathParameters` as the sets of
entries they append, and then parameters, security requirements in any order, components
and the encodings of the body are checked. A webhook's parameters are taken as they
are. `issues` is the set of complaints: their order is not observable, since the code sorts
them. `Sound` says from the documentation what an operation has to be like. Generation accepts what is
sound, and of what it accepts `AcceptanceIsExact` says that it is sound as long as it is `InSight`: a
webhook's references and duplicates are not, nor are encodings over a schema that is referred to
twice. The docs make no such exception, which `AcceptedKeepsTheRules` states (section 6).
`OperationIsValid` of `Generator` is `Accepted` here. A reference by an equivalent
spelling (percent-encoding) is another name, as in the code.

Abstract are the checks of a single value, with no state between them: media types,
examples, styles, response keys, headers, URLs.

### Endpoints

Four pieces of code spell the module's paths independently: `Validate` compares them
(`Collides`), `Routes` mounts them (`Mounted`), `excludedByPackage` recognises them (`OnOwnPath`),
and the pages link them (`EmbeddedLinks`, `PublishedLinks`). A path is the sequence of its
segments. `module` is the effective configuration `New` keeps; `captured` and `routes` are the
router and what is registered with each. `RegisterEndpoints` needs that the router accepts
its patterns, since a pattern registered twice panics at boot; `Naming` are the
routers whose `ForModule` marks routes with the module's name, which is how
`excludedByPackage` recognises them first. The paths it compares beside that are fewer than
`Routes` mounts, and so `EndpointsStayUndocumented` says of the theme's files only that they stay out
where the router names the module. Theme settings count by whether they are set.

### ContractExport

`contracts` is `Module.contracts`, `Own` the module's own document (a sequence of at most
one, empty without a Title), `Exported` is `exportedContracts`. A route table and the
content of a registry are version numbers that only grow: the properties ask which
versions a document was made of, and what a registry or a generation is made of
is the subject of the modules above. `Bytes(table, content, contract)` is what
`contractJSON` returns, or `Failed`; the proofs hold for every `Bytes`.

`call[c]` holds the locals of one call of the command:

    router → contracts → generate … generate → open → write → open → write … → done
                                             → compare … compare → done

with `done` reached from every step by its error. A call takes the route table once,
the list of documents under `contractsMu`, and the snapshot of a document's registry
when its turn comes. `writeContract` is two steps, since `os.WriteFile` empties the
file it opens: a failure or a death in between leaves it `Torn`, and so may two calls
that write one file at a time. `Die` ends the process and all that is in memory;
the files stay, and what the sources declare is declared again. The router pointer and its
list are read in one step: nothing the model has replaces a captured router here
(`SwaggerModule` does), so reading the pointer earlier makes no difference. `before`, `alone` and
`undisturbed` are history: the files as the call found them, whether another call
has written since, and whether anything has changed but by its own steps.

The conflict of two declarations is equality of paths after `filepath.Clean`: another
spelling of a file (relative and absolute, or through a link) is another path for
the code, and the model has no two names of one file.

### ModelSchemas

`input.go` maps Go types to what the deriver asks `reflect` for, and `input.models` is the
argument of `SchemasFromModels`. The recursion of `of`, `object` and `fields` is `stack`: a
frame for each call in progress and for what a caller does when the call above it
returns (`nullable`, `delete(d.inline, t)`, the enum of an array). A schema is a function
from paths (property names, `Items`, `Values`) to nodes; `required` and `seen` are sets of
paths, which keeps the `seen` of one object apart from that of another. A node records
the Go type it was made for, which no guard reads.

`DerivationIsExact` compares with definitions over the types alone: `WrittenFields` are the
fields encoding/json has by promotion, `Indescribable` what the comment of
`SchemasFromModels` says it cannot say. Two kinds of types have a recursion that meets no struct
that `inline` marks, and overflow the goroutine's stack, which ends the process (`MaxDepth` stands
for its size): `Circular` ones such as `type L []L`, of which the docs do not speak, and those where a struct
`EmbedsItself`. An embedded unnamed one the docs say is refused: `DerivationIsExact` says nothing of an
overflow on it, and `UnsayableIsRefused` what should be (section 6). `StructsDoNotNest` is about the
calls of `object` and their marks, which promotion does not use.

Left out are descriptions, formats and the text of enum values: an enum tag lists texts or
integers. Encoding and validating the finished schema is modelled by what it refuses, an
enum that has null twice (a pointer to a pointer).

## 3. Runs

| Run | Checks | Shows |
|---|---|---|
| `registry` | `RegistryTypeOK`, `RejectedChangesNeverPublished`, `OutcomesAreBinding`, `RevisionTracksContent`, `WebhookBatchesAreWhole`, `SomeRegistrationSucceeds` | every builder method, accepted and refused, on a route and the nil route; component, webhook and model registrations that disagree, `Models` interrupted between names |
| `cached` | `ModuleTypeOK`, `CacheIsSound`, `NoKeyIsBuiltTwice`, `DiagnosticIsLatest`, `AnswersAreCurrent` | two cached requests against the application, and a second `Routes`, with the same, another or a nil router, under them |
| `live` | `AnswersAreCurrent`, `EveryRequestIsAnswered` | two requests, each cached or an unprotected `Generate`; liveness of them |
| `generate` | `GeneratorTypeOK`, `DocumentIsDetermined`, `OperationsAreUnique`, `HiddenRoutesStayOut`, `GenerationsAgreeApart`, `AutomaticIDsAreQualified` | two generations of each of 6,412 inputs, in every order of their drafts |
| `export` | `ExportTypeOK`, `NothingIsWrittenEarly`, `ExportWritesEveryFile`, `FilesAreOfOneTable`, `CheckIsExact` | two calls of the command, one death of the process, registrations between any two steps |
| `derive` | `ModelSchemasTypeOK`, `DerivationIsExact`, `SchemasFitTheirTypes`, `StructsDoNotNest` | 7,309 lists of models over graphs of four types |
| `operation` | `OperationTypeOK`, `ResolutionIsExact`, `WalkIsSound`, `UndeclaredIsReported`, `ParametersFitThePath`, `AcceptanceIsExact`, `EveryOperationEnds` | 9,684 operations of routes and webhooks over components and schemas that refer in chains and circles |
| `endpoints` | `EndpointsNeverClash`, `PagesAreServed`, `EndpointsStayUndocumented`, `ApplicationIsDocumented` | 4,224 configurations of paths and switches on two routers, beside a route of the application |
| `unsayable` | `UnsayableIsRefused`, expected to be violated | section 6: a model that is no struct, and a struct embedded in itself |
| `rules` | `AcceptedKeepsTheRules`, expected to be violated | section 6: a webhook's reference to a path parameter, and an encoding over a shared schema |
| `siblings` | `GenerationsAgree`, expected to be violated | section 6 |
| `diagnose` | `DiagnosticIsLatest`, expected to be violated | section 6 |

Some properties are proved and not run, since a run checks what they imply or are part of: `WriteOnce`
(`WebhookBatchesAreWhole`, `OutcomesAreBinding`), `OwnDraftsWin` (`DocumentIsDetermined`),
`FilesAreNotShared` (`ExportWritesEveryFile`), `ResolutionProgresses` (`EveryOperationEnds`), and
`RequestsComeToAnEnd` with `StepsAreCounted` (`EveryRequestIsAnswered`).

**Bounds.** `MaxCalls` bounds what one client does, `MaxRequests` what one requester
asks, `MaxCaptures` the calls of `Routes`; all are guards, so no state is cut off by
a constraint. In `registry` three calls per client are a `Route` and two changes, or a
conflict with a half-registered batch and an idempotent repetition afterwards; a
refusal's damage and its issue happen in one call. Two `Models` calls over two names that disagree, and a component call, are the least in which
all could be refused; `RegistrationSucceeds` proves it for any number. In `cached` two registrations or builders and two
endpoints disturb one requester up to four times beside the two captures, which reaches
the request that gives up after three attempts and the torn answer; the second
requester contends for the lock and hits the cache. A second `Routes` finds requests queued
for the lock, and takes the router of their cache away or replaces it. `live` mixes cached and unprotected
requests, over one capture and two registrations, which are enough to tear an unprotected one. TLC runs with deadlock checking off because clients
and requesters run out of calls; that nobody waits for ever is `live`.

In `generate` the tables have the shapes the code tells apart: a `Match` and its
sibling, two routers' rows with the same method and path, ANY and methods
OpenAPI lacks, rows the package excludes, fallbacks, a `Match` of three
methods in a domain, and two `Match` registrations that share a method. At most two rows of a table, or a route that is not in it, are
documented, by drafts that are empty, hidden, name an operationId, one for a
method, or choose methods. Two drafts are the fewest whose order matters, and two
generations the fewest to compare.

In `operation` two parameter components and two security schemes may each be concrete, refer to
themselves, to each other, to another document or to nothing: chains of three and circles of two
with a tail. A path has up to two names, an operation up to two parameters (three for
the list that needs an inline one, a reference and another declaration), two security
requirements, and a body whose schema has two alternatives and reaches two components,
one with a nested object. Each kind of input varies one group and keeps the others sound: the
groups share nothing but `issues`. Deadlock checking is off as an operation ends.

In `endpoints` the UI path and the specification path are defaulted, equal, or meet in each of
the ways `Collides` and `Static` tell apart; one route of the application lies on, below or beside them,
registered before or after the module's, on a router that names modules or one that does not.
One such route is enough: the properties compare it with the module's. Deadlock checking is
off as an application stops registering.

In `export` the module's own document and two declared ones compete for three files, on
two registries, one of which a contract may lack; invalid contracts are refused. `MaxVersion` = 1
gives every table and registry an older and a newer version, and a registry newer than
the table fails the generation, so failures come first, in the middle or last.
Two calls suffice for one to overwrite, check or repair what the other left; `MaxDeaths` = 1
leaves torn files to a second process. One file of `Committed` holds an older document,
the others are absent. Deadlock checking is off because each call is made once.

In `derive` a graph is either of structure (A has two fields, B and C are pointers, slices
or structs that contain, embed or point to A, B or C, with colliding names) or of leaves (a
field of A under every tag, of a B of every kind, with elements of every kind down to a
byte). Three nested types are the fewest that embed in a cycle through a pointer beside a
field of the same name. Only what Go accepts is used: no struct contains itself by value.
One model or two, of either type. A derivation that ends uses at most the 12 frames of
`MaxDepth`, since the run finds an overflow of `Bottomless` types only. Each input is
derived in one way; TLC enumerates inputs. Deadlock checking is off as it ends.

Symmetry is used in `export` over the calls, in `generate` over the generations, in `cached` over
routes, requesters and routers: the specification and the properties, which are invariants and the
refinement of a safety specification, name none of them. `live` uses none.

**Fairness.** `FairModuleSpec` assumes weak fairness of a request's own steps, since a
runnable goroutine is scheduled, and strong fairness of `Lock`: `generationMu` is a
`sync.Mutex`, whose starvation mode hands it to a waiter that has waited for a
millisecond, so a waiter that keeps finding it free gets it. Nothing is assumed of
clients, of `Routes` or of requesters starting a request. Since the model has no
endless stream of changes, that the retry loop ends is a matter of the
`attempts` bound: `EveryStepLeadsToTheEnd` proves for every instance, and without
fairness, that a request has at most 21 steps of its own left and fewer after each.
Fairness is needed only for it to take them.

`FairOperationSpec` assumes weak fairness of `OperationNext`: a generation is one sequential
function that runs until it returns. `EveryOperationEnds` then says that no recursion
is endless.

Deliberately wrong variants of code definitions stand beside the originals (marked
*Mutant*) and show that each property of each run can fail: a forgotten issue, a
forgotten revision, an overwritten component, a batch whose later names are not
compared, an unsorted registration order, a cache key taken when storing, a
cache key without the route list, an error that is not cached, a diagnostic that is
not cleared, a lock that is not taken or not released, a draft that takes a row
from another, an index of the table without the path, an operation that
overwrites another, a hidden draft that hides its own row only, a document written
before the others are generated, a failed write that is passed over, a resolver that forgets the names it
passed, a search that does not visit the alternatives beside a `$ref`, paths compared before their
defaults, and so on.

## 4. Proofs

All theorems are checked by TLAPS and hold for every value of the constants that
satisfies the assumptions `TextAssumption`, `RegistryAssumption`, `ModuleAssumption`,
`GeneratorAssumption`, `MatchAssumption`, `ContractAssumption`, `ModelSchemasAssumption`, `ReferencesAssumption`,
`EncodingsAssumption`, `OperationAssumption` and `EndpointsAssumption` (typing of the inputs, distinctness
of the special values; `MatchAssumption`: a router registers a `Match` as a whole, so that a table
has its first row, of the same path and name, and every row serves one of its methods). TLC
evaluates the assumptions on every run.

`RegistryProofs`

* `RegistryTypeCorrect`. The type alone is not inductive: a change applies to a draft
  only because a builder exists for documented routes only
  (`BuildersAreDocumented`), and a name a `Models` call has still to register has a
  content (`ModelsAreNamed`). `ChangeType` is the lemma that every builder method
  maps drafts to drafts.
* `RevisionNamesContent`, `ContentIsWrittenOnce`. `ForwardStep`: every step either
  leaves the content alone or advances the revision, and only fills absent names.
* `OutcomesBind`. The strengthening `ModelsAreRegistered` says that the names an
  unfinished `Models` call has dealt with hold its content; write-once keeps it true
  while other clients step in between.
* `RejectedNeverPublished`, `WebhookBatchesWhole`.
* `RegistrationSucceeds`. A refusal needs a component that was there before, so one may follow
  refusals back to the registration that came first. The invariant says it without history
  (`LeaderInv`): as long as anything is registered, some call has succeeded, or one active `Models` call has all its
  remaining names after every registered one. Sorted order keeps the leader unrefused.

`SwaggerModuleProofs`

* `ModuleTypeCorrect`. Strengthened by what the position of a request says of its
  locals (`RequestInv`): it has a router wherever it reads the route list, and an
  attempt left wherever it starts one.
* `CacheSound`, the theorem the cache rests on. `CacheIsSound` is not inductive because
  it says nothing of what is about to be stored. `CacheInv` adds that neither the
  cache nor a request carries a revision of the future (`NoFutureRevision`) and that a
  finished build whose revision is still current describes the current content
  (`BuildsAreSound`). A registry step either keeps the content or moves the revision
  beyond all of them: that is `ForwardStep` of the registry, cited through
  `ApplicationForward`. The route list does not have to be current: it is part of
  the key.
* `ImplementsService`, assuming `OneRouter` (every request uses the cache, or `Routes` is called
  once). `Exclusion`: a cached request between lock and return holds `generationMu`; hence the
  captured router stays (`RouterInv`). `SeenInv`: a request's window holds the instants it lived
  through. `RetryInv`: at its n-th attempt it was disturbed n - 1 times, and n times as soon
  as a check would fail. `CandidateInv`: what it would answer is the document of such an instant,
  or it was disturbed once more, so the outcome it gives up with after the third attempt
  needs the fourth disturbance that `Patience` grants. Each step then is `Begin`, `Answer`,
  `Return`, `SourceChanges` or a stutter (`ApplicationServes`, `RequestServes`).
* `BuildsNothingTwice`. A key that was built is spent for good, because the revision or the captured
  router's list has outgrown it, or is in the cache, or is that of the build under way (`BuiltInv`). A
  request that misses has therefore seen every key spent (`KeyInv`), which needs that all lists read
  are prefixes of the current one (`PrefixesAgree`).
* `EveryStepLeadsToTheEnd`. `StepsLeft` ranks a request by where it stands and by its attempts: a round is five
  steps, which starting it takes off what the remaining attempts are worth, so that the step back to
  `attempt` is one downwards too. It needs `ModuleInv` (an
  attempt is left wherever one starts) and `Exclusion` (only a cached request loops).
* `CachedDiagnosticIsLatest`, assuming `AllCached`: from the decision to the report
  the request holds the lock (`OutcomeInv`). `diagnose` shows that it fails without.

`GeneratorProofs`. `StepCases` says once what each action does to each field, so that
the invariants below are argued over five cases without unfolding records.

* `GeneratorTypeCorrect`, `OwnDraftsAreKept`.
* `OperationsUnique`. Needs that every identifier written is recorded
  (`IDsRecorded`), since later rows and the webhooks are compared with the record
  and not with the operations, and that a finished call is at its end (`Ended`).
* `DocumentDetermined`, `HiddenStaysOut`. Three steps. Bindings: as long as no issue was
  found, a visited draft has all its rows that have no draft of their own
  (`Settled`), and a row is bound only to a draft that may document it (`Founded`);
  so when all are visited the binding of a row is the only member of `Authors`, which
  the input determines (`BindingsAreAuthors`). Rows: nothing is described before
  (`BindingFirst`), every operation is one its row's binding asks for (`Sourced`), and
  without issues none is missing (`Complete`), because a wanted method without a place
  is an issue (`NoIssuesNoGaps`). Together: the document of a success is a function of
  the input.
* `GenerationsDoAgree`, of which the half for two successes is the above. That no order makes one fail and another
  succeed needs a condition on the input alone under which no issue arises: `Agreeable` (every draft has its route and
  chosen methods, no draft's rows are another's, no row and no webhook collides with an earlier one when each row is
  bound to its author). A success shows it (`ShownInv`: what the absence of issues so far says of the drafts, rows and
  webhooks dealt with; `SuccessIsAgreeable`), and under it no step of any generation adds an issue
  (`AgreeableStep`, by `HarmlessWithoutIssues`, an equivalence). Two drafts that meet in one order only
  are what `SiblingDocumented` excludes: without it candidates are mutual (`MutualCandidates`).
* `IDsQualified`, from the first row that `MatchAssumption` provides.

`ContractExportProofs` proves all properties of `export`, and that files are not shared. `StepKinds` says that a step is, to a
call, nothing, a change of the application, another's write, the death of the
process or its own; what an invariant says of a call has to be argued for the last only.

* `FilesNotShared`. The list of declarations is a sequence of contracts and the own
  document joins it: `SharedInv`.
* `ExportTypeCorrect`. `LocalInv` says what the position of a call says of its locals: the
  contracts it took have distinct files, it has generated the documents of the first of
  them from its table, and all of them before a file's turn comes.
* `WritesAfterGenerating`, `ExportIsComplete`, `FilesAgree`. `OnDisk`: as long as nobody else has
  written, the files are as found until all is generated, and then the documents before
  the one in hand are in their files (`InPlace`), the file in hand is torn between open
  and write, and all others are as found (`Untouched`). It is `FilesNotShared`, kept by the
  call's own copy of the list, that lets a write leave the earlier files alone.
* `CheckNamesTheStale`. `Current`: what an undisturbed call has taken is still the case, and
  `stale` holds the files before the one in hand that differ.

`ModelSchemasProofs` proves its properties for every set of Go types, with one lemma for each
action.

* `ModelSchemasTypeCorrect`. Needs that a waiting `nullable` finds its node: either the node has
  been written or the frame above it is the call that will write it (`Pending`).
* `StructsNeverNest`. Needs that the structs being written are marked (`MarkedInline`): one
  enters only unmarked, so that the mark which goes with the innermost is no other's.
* `SchemasFit`. `Shape` says what a derivation under way owes. A path is `Owed` a schema of a type: its node is there, or
  one call will write it, of a type the pointers on the way lead to, and a call of `nullable` waits exactly if null is
  still to be added. A field of a struct is `Settled`, or it is `Ahead`: a call of `fields` has it before it,
  itself or in a struct it still has to promote. Every step turns one into the other: what a struct embeds is a part,
  and a part other than the struct is part of something it embeds (`PartByEmbedding`), by the leastness of `Reached`.
  With no call left everything owed is there (`WholeFits`). `Rooted` and `Unwritten` keep two fields from writing one path.
* `DerivationExact`, which is `DerivationIsExact` but for its part about an overflow, for every `MaxDepth`. The derivation and the definitions
  over the types are compared through what is said of a schema under way (`Deriving`).
  * A refusal has its reason. What is being written is in `Sight`: it is contained in the model, and what is
    written while an inline struct is, that struct contains, so one met again contains itself. A call carries the enum of a
    field's tag, after one pointer or after two, and a node has what became of it (`Tagged`). And a property that is seen twice is
    written by two fields or by one in two ways: in a struct without a collision the parts that write anything form a tree
    (`PartsAreNested`, `NoCommonPart`), no field is before two calls (`Apart`), and none that is before a call has been
    seen (`NotYet`).
  * A type with a flaw is refused, or does not end. With no call left every value has a node (`ValuesDone`) that says what its type
    is (`WrittenSoFar`). Of two fields that write a property one is before a call (`Once`); a field that is embedded twice is
    before calls on two ways, or before one and seen (`DoubleWay`); a struct that is embedded in itself keeps a call from ending
    (`NeverEnds`). So when no call is left there are none. A type that contains itself would have nodes
    without a bound: the types that do not are the least set `Grounded`, a node of another has one of another below it,
    and one of them would be the lowest (`NodesGrounded`).
  * A name stored before is that of a model before (`NamesStored`), so a name met again is not distinct.
* `DerivationExactThroughout`, which is `DerivationIsExact` as it stands, by the stronger fact that only
  `Bottomless` types overflow. It assumes what the code relies on: there are finitely
  many types, n of them, and the goroutine's stack holds 3n(n + 1) calls. Each call is labelled with the struct being written
  within which it is, the type it is about and what it does (`Labels`); within one struct a value is within values that contain
  it, an embedded struct within those that embed it (`Beneath`), so that two calls with one label are two stays at a type without a bottom
  (`LabelsDiffer`), and by the pigeonhole principle there are such if the stack is fuller than that (`TooDeep`).

`ResolutionProofs`

* `Resolves`. All names passed, and what they refer to, lie on every trail from the origin, so
  that the component at the end is the only one; met again, the names passed are a trail
  without a component.
* `UndeclaredAreReported`, by the exact reasons for which the search is silent (`SilenceExplained`): a
  reference met twice, or one to another document, is seen by the search, since what is
  on the stack or was visited a second time is `MetTwice` (`RepeatsAreMetTwice`). Conversely a search that keeps its verdict
  has met no reference on two ways, since what it passes over holds no reference (`MeetingsAreLight`).
* `EndsEveryResolution`. Each call returns or passes a name for the first time.
* `SearchIsSound`. Everything still to visit is part of the schema, and the parts of what was
  visited were visited, or wait, or were passed over as references followed before, whose
  targets were visited or wait: when nothing waits, the visited objects are closed.

`OperationProofs`

* `ImplementsReferences`, `ImplementsEncodings`: a step of an operation is a step of each recursion
  or leaves it alone, under the identity mapping; `OperationResolves`, `OperationProgresses` and
  `OperationSearches` follow.
* `OperationTypeCorrect`, `ParametersFit`. What was collected is distinct among the inline
  parameters and among the references (`InlineTwice`, `ReferenceTwice` are issues); a key is known
  exactly if its reference leads to a parameter, by `Resolves`; what is left to clash after
  `Merge` is `Both` or `Strays`.
* `AcceptsExactly`. `ExactSoFar` says of every phase that is over, and of the part of the phase under way, that there is
  an issue exactly if what the code looks at is not sound; `Staged` says what is still to come. What is
  looked at is what soundness asks if all is in sight (`WebhooksPass` for a webhook's parameters).
* `OperationReportsUndeclared`, through `ImplementsEncodings`.

`EndpointsProofs` proves all properties of `endpoints` for every configuration, router and set of
routes. The paths `Routes` makes up are told apart by their lengths and last segments
(`LengthTells`, `SameFile`, `SameAsset`), and the specification path from them by what `Validate`
compared (`SpecIsApart`). The invariant: the module is `Resolved`, and a router's table
holds routes of the application, or all of the module's.

Every safety property of a passing run is proved, some under a condition named above. Only model-checked, because liveness under fairness is out of the prover's
reach: `EveryRequestIsAnswered` and `EveryOperationEnds`. The run `derive` has `MaxDepth` = 12, which is enough for its types; the theorem's
bound for any four types is 60.

Proof attempts corrected the model three times. `AutomaticIDsAreQualified` did not hold where two
`Match` registrations of one path share a method and the draft of one takes the other's row: the row's source is not of
its `Match`, the generator counts the other's methods, and the property now says which rows it is about; `OverlapTable` has
the case. `Encodings` allowed a schema that holds the root, which no Go value of a schema is. `Reached` was a recursion
over a number of steps and is now the least set that no step leaves, which is what is meant and can be reasoned about.

## 5. Not modelled

* The disabled module is the instance `Endpoints = 0`. Middleware and
  response writing do not touch the modelled state.
* Caller code that re-enters the registry from inside a builder call (a
  `MarshalJSON` that registers documentation) would wait for a mutex its own call
  holds; inputs are opaque values here.
* Nil registries and nil modules, and overflow of the 64-bit revision.
* Text, JSON and HTML: validation of names, URLs and schemas appears as valid or not.
* The shape checks of the generator that look at one value at a time (responses, headers,
  examples, callbacks, URLs), the walk of `validateSchemaReference`, and of the configuration
  what has nothing to do with endpoints or filters: texts, origins, contract names, clones.
* The rendering of the pages (HTML, CSS, translations) beyond what they have a browser load;
  constructors and JSON encoding of OpenAPI types; the init-time registration with
  the framework.
* What encoding/json writes for a value: a field promoted through an embedded pointer is
  listed as required (`models.go:296`) but not written when the pointer is nil. The model
  has types, and `SchemasFitTheirTypes` states the rule of the code.

## 6. Findings

`siblings`. `contracts.go:203` says that the same route table and registry always produce
the same bytes. When an application documents the row `Match` returned and also one
of its sibling rows (found in the route list), the order in which the map is
visited decides: if the sibling's draft is visited first, the first row's draft meets
it and the generation fails with "is documented by both"; the other way round the
sibling's draft overwrites its own binding without a report and the generation
succeeds. `GenerationsAgreeApart` shows that without this overlap the outcome does not
depend on the order, and `DocumentDetermined` that every success, overlap or not,
writes the same operations.

`unsayable`. `models.go:57` and `docs/schemas-components.md:130` list types that are errors: "a map with
keys that are not strings", "an inline struct that contains itself". The run derives two models that
should be refused, and both faults are in its trace.

* The comment of `root` (`models.go:148`) says that a model's own type is "written out even when it is the type a
  reference elsewhere would name". That is so for structs. A model of another type goes to `of`, which
  looks the type up in the names (`models.go:166`) before anything else and finds the model itself: the
  component of `type C map[int]A` is a `$ref` to itself, and accepted. `type Tags []string` fares the same.
* `models.go:141` says that `inline` makes an unnamed struct that contains itself "refused instead of
  recursing". Promotion calls `fields` for an embedded struct without a look at `inline`
  (`models.go:260`): `type B struct{ *B; Q C }` below a model overflows the stack and ends the process.
  (If a field before the embedded one writes a property, the second round finds it written twice and refuses.)

`rules`. One webhook, accepted without an issue, breaks two rules.

* `docs/webhooks.md:63` says of a webhook's parameters that "path parameters are refused", and `webhooks.go:50`
  that "a webhook has no path parameters". `buildWebhook` looks at `In` (`webhooks.go:180`), which a `$ref` does not
  have, and nothing looks at what the reference leads to.
* `docs/request-bodies.md:91` says that the key of an encoding "must name a property that can be resolved from
  the inline or local schema" and excepts "an external schema reference" only. A local `$ref` met twice,
  in two alternatives that share a base for instance, makes the search give up without a report, although all of the
  schema is at hand (`generator.go:1002`). `UndeclaredIsReported` shows that without such a reference the rule holds.

`diagnose`. `docs/generation.md` promises that a successful later generation clears the
diagnostic. Without the cache an outcome is decided by the generation and stored by
`setLastError` in two steps, and nothing orders two requests: a request that failed
(before `Routes`, say) and is delayed before `setLastError` overwrites the cleared
diagnostic of a later success, and `Diagnose` reports a stale error while the module
is idle. With the cache and only cached requests `generationMu` orders both steps,
and `cached` shows the property to hold.

Divergences without a run of their own:

* `docs/routes.md` says that a route of several methods gets method-qualified automatic
  identifiers. For undocumented rows `linkedRouteMethodCounts` finds the rows
  of a `Match` by method, path and domain, but `Domain` changes the first row only
  (`docs/architecture.md:271`): the siblings keep the bare name, and two of them make the
  generation fail over their equal operationIds. It needs `IncludeUndocumented`.
  `AutomaticIDsAreQualified` excepts these rows (`Parted`).
* A webhook's parameters are not compared with one another, as a route's are: two of one name and location
  both reach the document, which OpenAPI does not allow. `AcceptanceIsExact` excepts them (`InSight`).
* `docs/routes.md:68` says that "Swagger's own routes are always excluded", and `docs/compatibility.md:45` lists
  "Swagger-owned endpoints" as deliberately excluded. `excludedByPackage` recognises them by the module's name on the route
  or by their paths, and its list of paths (`generator.go:1640`) lacks `theme.css` and `theme.js`. On a router that does
  not name the module, a document with `IncludeUndocumented` describes these two, and one exported where the endpoints are not mounted
  does not. `EndpointsStayUndocumented` claims what `docs/filters.md:16` lists: the UI, initializer, asset and specification paths.
* `docs/parameters.md:107` says that local references are validated. A circle of component
  references passes, since each of them has a target.
* `contracts.go:51` says that the endpoint settings have no effect on a declared contract.
  `excludedByPackage` applies them, defaults included, to its document: an application's own route at `/docs` or
  `/docs/openapi.json` is left out of it.

## 7. Plan

1. *Done*: `OperationDraft`, `Registry`, `DocumentService`, `SwaggerModule`, their runs and
   the proofs above.
2. *Done*: `Generator`, its run and the proofs of all its properties. Left: a
   composition with `Operation` in which `OperationIsValid` is computed.
3. *Done*: `ContractExport`, its run and the proofs of all its properties.
4. *Done*: `References`, `Encodings`, `Operation`, their run and proofs. Left: `validateSchemaReference`.
5. *Done*: `ModelSchemas`, its runs and the proofs of its properties.
6. *Done*: `Endpoints`, its run and the proofs of all its properties.
7. *Done*: `AnswersAreCurrent`, `NoKeyIsBuiltTwice` and, for cached requests, `DiagnosticIsLatest`
   proved.
