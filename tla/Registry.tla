------------------------------ MODULE Registry ------------------------------
(***************************************************************************)
(* The documentation registry (registry.go, webhooks.go, models.go).      *)
(*                                                                         *)
(* One mutex, Registry.mu, serialises every operation, so an operation    *)
(* that takes it once is one action.  Models is the exception: it takes   *)
(* the mutex once per schema, in the order of the names, and any other    *)
(* client may run in between.  What a registration checks before it locks *)
(* reads only its arguments and is part of its action.                    *)
(***************************************************************************)
EXTENDS OperationDraft, FiniteSets

CONSTANTS Clients,         \* goroutines that register documentation
          Routes,          \* the application's routes
          NilRoute,        \* the nil *Route a client may pass
          Undocumented,    \* the draft of a route nobody has documented
          Keys,            \* component names, numbered in the order they sort
          WebhookKeys,     \* (name, method) pairs of webhooks
          Contents,        \* component and webhook values that validate
          Invalid,         \* a value (or a name) that does not validate
          Absent,          \* no value is registered
          BuilderCalls,    \* the builder calls clients make
          ComponentCalls,  \* the component registrations clients make
          WebhookCalls,    \* the webhook batches clients register
          ModelCalls,      \* the model batches clients register
          MaxCalls         \* bound: calls one client makes

Values == Contents \cup {Invalid}

Batches == [Keys -> Contents \cup {Absent}]

ASSUME RegistryAssumption ==
    /\ NilRoute \notin Routes
    /\ Undocumented \notin Drafts
    /\ Keys \subseteq Nat
    /\ Invalid \notin Contents
    /\ Absent \notin Values
    /\ BuilderCalls \subseteq BuilderCall
    /\ ComponentCalls \subseteq [key : Keys, value : Values]
    /\ WebhookCalls \subseteq Seq([key : WebhookKeys, value : Values])
    /\ ModelCalls \subseteq [derivable : BOOLEAN, batch : Batches]
    /\ MaxCalls \in Nat

VARIABLES drafts,      \* routes: the draft of each documented route
          builders,    \* the routes builders were handed out for
          components,  \* components: the registered reusable components
          webhooks,    \* webhooks: the registered webhooks
          issues,      \* len(issues): recorded errors, none is ever removed
          revision,    \* revision
          calls,       \* how many calls each client has made
          work,        \* the Models call each client is in, if any
          intended,    \* history: the drafts accepted changes alone make
          outcomes     \* history: what component and model calls returned

registryState == <<drafts, builders, components, webhooks, issues, revision>>
history == <<intended, outcomes>>
registryVars == <<registryState, calls, work, history>>

Idle == [active |-> FALSE, batch |-> [k \in Keys |-> Absent], todo |-> {}]

\* A Models call between its steps: the names it has still to register.
Work == [active : BOOLEAN, batch : Batches, todo : SUBSET Keys]

\* The names a batch registers.
Named(batch) == {k \in Keys : batch[k] # Absent}

\* What generation can see of the registry.
Content == [drafts |-> drafts, components |-> components,
            webhooks |-> webhooks, issues |-> issues]

\* The copy generation takes under the read lock.
Snapshot == Content

RegistryTypeOK ==
    /\ drafts \in [Routes -> Drafts \cup {Undocumented}]
    /\ builders \subseteq Routes \cup {NilRoute}
    /\ components \in Batches
    /\ webhooks \in [WebhookKeys -> Contents \cup {Absent}]
    /\ issues \in Nat
    /\ revision \in Nat
    /\ calls \in [Clients -> 0 .. MaxCalls]
    /\ work \in [Clients -> Work]
    /\ intended \in [Routes -> Drafts \cup {Undocumented}]
    /\ outcomes \subseteq [batch : Batches, ok : BOOLEAN]

RegistryInit ==
    /\ drafts = [r \in Routes |-> Undocumented]
    /\ builders = {}
    /\ components = [k \in Keys |-> Absent]
    /\ webhooks = [k \in WebhookKeys |-> Absent]
    /\ issues = 0
    /\ revision = 0
    /\ calls = [c \in Clients |-> 0]
    /\ work = [c \in Clients |-> Idle]
    /\ intended = drafts
    /\ outcomes = {}

-----------------------------------------------------------------------------
(* The ways an operation ends, each under Registry.mu. *)

\* Mutant: recording an error does not advance the revision.
RecordUnrevised ==
    /\ issues' = issues + 1
    /\ UNCHANGED <<drafts, components, webhooks, revision>>

RecordLocked ==
    /\ issues' = issues + 1
    /\ revision' = revision + 1
    /\ UNCHANGED <<drafts, components, webhooks>>

Revise == revision' = revision + 1

NothingChanges == UNCHANGED <<drafts, components, webhooks, issues, revision>>

\* A client makes a call: it is not inside another, and has calls left.
Call(c) ==
    /\ ~work[c].active
    /\ calls[c] < MaxCalls
    /\ calls' = [calls EXCEPT ![c] = @ + 1]

Returns(batch, ok) == outcomes' = outcomes \cup {[batch |-> batch, ok |-> ok]}

-----------------------------------------------------------------------------
(* Route hands out the builder of a route and creates its draft once. *)

Route(c, r) ==
    /\ Call(c)
    /\ builders' = builders \cup {r}
    /\ \/ /\ r = NilRoute
          /\ RecordLocked
          /\ UNCHANGED intended
       \/ /\ r \in Routes
          /\ drafts[r] = Undocumented
          /\ drafts' = [drafts EXCEPT ![r] = EmptyDraft]
          /\ intended' = [intended EXCEPT ![r] = EmptyDraft]
          /\ Revise
          /\ UNCHANGED <<components, webhooks, issues>>
       \/ /\ r \in Routes
          /\ drafts[r] # Undocumented
          /\ NothingChanges
          /\ UNCHANGED intended
    /\ UNCHANGED <<work, outcomes>>

\* Mutant: a refused change is dropped without being recorded.
IssuesAfterForgotten(change) == issues

IssuesAfter(change) == IF change.ok THEN issues ELSE issues + 1

(***************************************************************************)
(* update: every builder method runs its closure on the draft under the   *)
(* mutex.  The closure's writes stay even when it reports an error.       *)
(***************************************************************************)
Update(c, r, call) ==
    /\ Call(c)
    /\ r \in builders
    /\ \/ /\ r = NilRoute
          /\ RecordLocked
          /\ UNCHANGED intended
       \/ /\ r \in Routes
          /\ LET change == Change(drafts[r], call)
             IN  /\ drafts' = [drafts EXCEPT ![r] = change.draft]
                 /\ issues' = IssuesAfter(change)
                 /\ intended' = IF change.ok
                                THEN [intended EXCEPT ![r] = Change(@, call).draft]
                                ELSE intended
          /\ Revise
          /\ UNCHANGED <<components, webhooks>>
    /\ UNCHANGED <<builders, work, outcomes>>

(***************************************************************************)
(* registerSchema and registerComponent: store a new name, accept the same*)
(* content again, record a conflict or an invalid name or value.          *)
(***************************************************************************)
Conflicts(key, value) ==
    \/ value = Invalid
    \/ components[key] \notin {Absent, value}

\* Mutant: the last registration of a name wins.
RegisterLockedOver(key, value) ==
    /\ components' = [components EXCEPT ![key] = value]
    /\ Revise
    /\ UNCHANGED <<drafts, webhooks, issues>>

RegisterLocked(key, value) ==
    \/ /\ Conflicts(key, value)
       /\ RecordLocked
    \/ /\ ~Conflicts(key, value)
       /\ components[key] = value
       /\ NothingChanges
    \/ /\ ~Conflicts(key, value)
       /\ components[key] = Absent
       /\ components' = [components EXCEPT ![key] = value]
       /\ Revise
       /\ UNCHANGED <<drafts, webhooks, issues>>

RegisterComponent(c, call) ==
    /\ Call(c)
    /\ RegisterLocked(call.key, call.value)
    /\ Returns([k \in Keys |-> IF k = call.key /\ call.value # Invalid
                               THEN call.value ELSE Absent],
               ~Conflicts(call.key, call.value))
    /\ UNCHANGED <<builders, work, intended>>

(***************************************************************************)
(* Webhooks: a batch with an invalid or repeated webhook, or with one that*)
(* conflicts, registers nothing; otherwise all of it is registered.       *)
(***************************************************************************)
WebhookBatchInvalid(batch) ==
    \/ \E i \in DOMAIN batch : batch[i].value = Invalid
    \/ \E i, j \in DOMAIN batch : i # j /\ batch[i].key = batch[j].key

\* Mutant: only the first webhook of a batch is compared with the registry.
FirstWebhookConflicts(batch) ==
    batch # <<>> /\ webhooks[batch[1].key] \notin {Absent, batch[1].value}

WebhookConflicts(batch) ==
    \E i \in DOMAIN batch : webhooks[batch[i].key] \notin {Absent, batch[i].value}

WebhooksAfter(batch) ==
    [k \in WebhookKeys |->
        IF \E i \in DOMAIN batch : batch[i].key = k
        THEN batch[CHOOSE i \in DOMAIN batch : batch[i].key = k].value
        ELSE webhooks[k]]

RegisterWebhooks(c, batch) ==
    /\ Call(c)
    /\ \/ /\ WebhookBatchInvalid(batch) \/ WebhookConflicts(batch)
          /\ RecordLocked
       \/ /\ ~WebhookBatchInvalid(batch)
          /\ ~WebhookConflicts(batch)
          /\ webhooks' = WebhooksAfter(batch)
          /\ revision' = IF webhooks' = webhooks THEN revision ELSE revision + 1
          /\ UNCHANGED <<drafts, components, issues>>
    /\ UNCHANGED <<builders, work, history>>

(***************************************************************************)
(* Models derives every schema first, then registers them one by one.     *)
(***************************************************************************)
BeginModels(c, call) ==
    /\ Call(c)
    /\ \/ /\ ~call.derivable
          /\ RecordLocked
          /\ Returns(call.batch, FALSE)
          /\ UNCHANGED work
       \/ /\ call.derivable
          /\ work' = [work EXCEPT ![c] = [active |-> TRUE, batch |-> call.batch,
                                          todo |-> Named(call.batch)]]
          /\ NothingChanges
          /\ UNCHANGED outcomes
    /\ UNCHANGED <<builders, intended>>

\* Mutant: the names are registered in the order the map yields them.
AnyModel(c, k) == k \in work[c].todo

\* The names are registered in sorted order; the first conflict returns.
NextModel(c, k) ==
    /\ k \in work[c].todo
    /\ \A other \in work[c].todo : k <= other

RegisterModel(c) ==
    /\ work[c].active
    /\ \E k \in work[c].todo :
          LET value == work[c].batch[k]
          IN  /\ NextModel(c, k)
              /\ RegisterLocked(k, value)
              /\ \/ /\ Conflicts(k, value)
                    /\ work' = [work EXCEPT ![c] = Idle]
                    /\ Returns(work[c].batch, FALSE)
                 \/ /\ ~Conflicts(k, value)
                    /\ work' = [work EXCEPT ![c].todo = @ \ {k}]
                    /\ UNCHANGED outcomes
    /\ UNCHANGED <<builders, calls, intended>>

ReturnModels(c) ==
    /\ work[c].active
    /\ work[c].todo = {}
    /\ work' = [work EXCEPT ![c] = Idle]
    /\ Returns(work[c].batch, TRUE)
    /\ NothingChanges
    /\ UNCHANGED <<builders, calls, intended>>

-----------------------------------------------------------------------------

RegistryNext ==
    \E c \in Clients :
        \/ \E r \in Routes \cup {NilRoute} : Route(c, r)
        \/ \E r \in Routes \cup {NilRoute}, call \in BuilderCalls : Update(c, r, call)
        \/ \E call \in ComponentCalls : RegisterComponent(c, call)
        \/ \E batch \in WebhookCalls : RegisterWebhooks(c, batch)
        \/ \E call \in ModelCalls : BeginModels(c, call)
        \/ RegisterModel(c)
        \/ ReturnModels(c)

RegistrySpec == RegistryInit /\ [][RegistryNext]_registryVars

-----------------------------------------------------------------------------
RevisionAdvances ==
    /\ revision' >= revision
    /\ Content' # Content => revision' > revision

(***************************************************************************)
(* The revision names the registry's content: whatever a generation can   *)
(* see changes only together with a larger revision.  The cache compares  *)
(* revisions alone (Revision: "Every successful mutation and every        *)
(* recorded error advances it").                                          *)
(***************************************************************************)
RevisionTracksContent == [][RevisionAdvances]_registryVars

(***************************************************************************)
(* A change a builder refused may have written half of itself into the    *)
(* draft.  Such a draft never generates: as long as no issue is recorded, *)
(* the drafts are what the accepted changes alone would have made.        *)
(***************************************************************************)
RejectedChangesNeverPublished == issues = 0 => drafts = intended

WrittenOnce ==
    /\ \A k \in Keys : components[k] # Absent => components'[k] = components[k]
    /\ \A k \in WebhookKeys : webhooks[k] # Absent => webhooks'[k] = webhooks[k]
    /\ issues' >= issues

(***************************************************************************)
(* Registered content is written once: no later call, conflicting or not, *)
(* replaces or removes a component or a webhook, and no error is forgotten.*)
(***************************************************************************)
WriteOnce == [][WrittenOnce]_registryVars

WholeBatch ==
    webhooks' # webhooks =>
       /\ \E batch \in WebhookCalls :
             /\ \A i \in DOMAIN batch : webhooks'[batch[i].key] = batch[i].value
             /\ \A k \in WebhookKeys :
                   (\A i \in DOMAIN batch : batch[i].key # k) => webhooks'[k] = webhooks[k]
       /\ \A k \in WebhookKeys : webhooks[k] # Absent => webhooks'[k] = webhooks[k]

(***************************************************************************)
(* A batch of webhooks is registered as a whole or not at all: a step that*)
(* registers one of its webhooks registers all of them, and replaces none *)
(* that was there ("Nothing is registered when any of them is invalid").  *)
(***************************************************************************)
WebhookBatchesAreWhole == [][WholeBatch]_registryVars

(***************************************************************************)
(* What a registration returned is binding: after nil every one of its    *)
(* names holds its content, whoever else registered meanwhile; after an   *)
(* error the registry holds an issue, so nothing generates silently       *)
(* without it.                                                            *)
(***************************************************************************)
OutcomesAreBinding ==
    \A o \in outcomes :
        IF o.ok
        THEN \A k \in Named(o.batch) : components[k] = o.batch[k]
        ELSE issues > 0

(***************************************************************************)
(* Concurrent registrations that disagree do not refuse each other all:   *)
(* because Models registers its names in sorted order, the call that got  *)
(* furthest is refused by nobody.  So whatever components the registry    *)
(* holds once nobody is at work, some call has returned nil.              *)
(***************************************************************************)
SomeRegistrationSucceeds ==
    (\E k \in Keys : components[k] # Absent) /\ (\A c \in Clients : ~work[c].active)
        => \E o \in outcomes : o.ok
=============================================================================
