----------------------------- MODULE MCRegistry -----------------------------
(* Instances of Registry small enough to explore exhaustively. *)
EXTENDS Registry

CONSTANTS a, b   \* two different valid contents

----------------------------------------------------------------------------
(* Builders: every builder method, with the inputs it refuses. *)

MCBuilderCalls ==
    {[op |-> "Summary", text |-> "x"],
     [op |-> "OperationID", text |-> "x"],
     [op |-> "OperationID", text |-> Blank],
     [op |-> "OperationIDFor", method |-> "GET", text |-> "x"],
     [op |-> "OperationIDFor", method |-> "GET", text |-> Blank],
     [op |-> "Tags", list |-> <<"x", Blank, "y">>],
     [op |-> "Tags", list |-> <<"x", "y">>],
     [op |-> "Methods", list |-> <<>>],
     [op |-> "Methods", list |-> <<"GET", Blank>>],
     [op |-> "Methods", list |-> <<"GET", "PUT">>],
     [op |-> "RequestBodyDescription"],
     [op |-> "Hidden"]}
    \cup [op : {"Parameter", "Security", "Extension", "RequestBody", "RequestBodyRef"},
          text : {"x"}, valid : BOOLEAN]
    \cup [op : {"Response", "ResponseRef", "ResponseHeader"},
          status : {"200"}, text : {"x"}, valid : BOOLEAN]

----------------------------------------------------------------------------
(* Registrations: two contents compete for each name and each webhook. *)

MCComponentCalls == [key : {1}, value : {a, b, Invalid}]

Webhook(k, v) == [key |-> k, value |-> v]

MCWebhookCalls ==
    {<<Webhook("w1", a)>>,
     <<Webhook("w1", a), Webhook("w2", a)>>,
     <<Webhook("w2", b), Webhook("w1", a)>>,
     <<Webhook("w1", b), Webhook("w1", a)>>,
     <<Webhook("w2", a), Webhook("w1", Invalid)>>}

AllOf(v) == [k \in Keys |-> v]

MCModelCalls ==
    {[derivable |-> TRUE, batch |-> AllOf(a)],
     [derivable |-> TRUE, batch |-> AllOf(b)],
     [derivable |-> FALSE, batch |-> AllOf(b)]}
=============================================================================
