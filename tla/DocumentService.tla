-------------------------- MODULE DocumentService ---------------------------
(***************************************************************************)
(* What the module promises a caller that asks for the OpenAPI document,  *)
(* whatever locks and caches produce it.                                  *)
(*                                                                         *)
(* The document is a function of two sources that change independently:   *)
(* the route table and the registry's content.  An answer always combines *)
(* a table and a content that were current during the call, the table no  *)
(* later than the content.  When fewer than Patience changes happened     *)
(* during the call, it is moreover the document of a single instant of    *)
(* the call: no change is half visible in it, and none that was complete  *)
(* when the call began is missing.                                        *)
(***************************************************************************)
EXTENDS Naturals

CONSTANTS Callers,         \* goroutines that ask for the document
          Describe(_, _),  \* the document of a table and a content
          Patience         \* how many changes a call withstands

VARIABLES table,    \* the current route table
          content,  \* the current registry content
          call,     \* what each caller's call has seen so far
          answer    \* the answer each caller is about to receive: <<>> or <<document>>

serviceVars == <<table, content, call, answer>>

NoCall == [open |-> FALSE, tables |-> {}, exact |-> {}, mixed |-> {}, changes |-> 0]

NoAnswer == <<>>

Current == Describe(table, content)

ServiceInit ==
    /\ call = [q \in Callers |-> NoCall]
    /\ answer = [q \in Callers |-> NoAnswer]

Begin(q) ==
    /\ ~call[q].open
    /\ call' = [call EXCEPT ![q] = [open |-> TRUE, tables |-> {table},
                                    exact |-> {Current}, mixed |-> {Current},
                                    changes |-> 0]]
    /\ UNCHANGED <<table, content, answer>>

\* The table or the content changes; every open call sees it.
Observed(seen) ==
    [open    |-> TRUE,
     tables  |-> seen.tables \cup {table'},
     exact   |-> seen.exact \cup {Describe(table', content')},
     mixed   |-> seen.mixed \cup {Describe(t, content') : t \in seen.tables \cup {table'}},
     changes |-> IF seen.changes < Patience THEN seen.changes + 1 ELSE Patience]

SourceChanges ==
    /\ \/ table' # table /\ UNCHANGED content
       \/ content' # content /\ UNCHANGED table
    /\ call' = [q \in Callers |-> IF call[q].open THEN Observed(call[q]) ELSE call[q]]
    /\ UNCHANGED answer

Allowed(seen) == IF seen.changes < Patience THEN seen.exact ELSE seen.mixed

Answer(q) ==
    /\ call[q].open
    /\ answer[q] = NoAnswer
    /\ \E document \in Allowed(call[q]) : answer' = [answer EXCEPT ![q] = <<document>>]
    /\ UNCHANGED <<table, content, call>>

Return(q) ==
    /\ answer[q] # NoAnswer
    /\ answer' = [answer EXCEPT ![q] = NoAnswer]
    /\ call' = [call EXCEPT ![q] = NoCall]
    /\ UNCHANGED <<table, content>>

ServiceNext ==
    \/ SourceChanges
    \/ \E q \in Callers : Begin(q) \/ Answer(q) \/ Return(q)

ServiceSpec == ServiceInit /\ [][ServiceNext]_serviceVars
=============================================================================
