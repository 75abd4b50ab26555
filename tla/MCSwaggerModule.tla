--------------------------- MODULE MCSwaggerModule --------------------------
(***************************************************************************)
(* Instances of SwaggerModule with a generator that keeps what its        *)
(* properties tell apart: a recorded issue and a documented route missing *)
(* from the route list are errors; otherwise the document shows every     *)
(* listed route, documented or not (IncludeUndocumented).                 *)
(***************************************************************************)
EXTENDS SwaggerModule, TLC

DocumentedRoutes(content) == {r \in Routes : content.drafts[r] # Undocumented}

Listed(table) == {table[i] : i \in DOMAIN table} \cap Routes

MCErrors(table, content) ==
    {<<"issue", n>> : n \in 1 .. content.issues}
    \cup {<<"absent", r>> : r \in DocumentedRoutes(content) \ Listed(table)}

MCDocument(table, content) ==
    LET errors == MCErrors(table, content)
    IN  [errors |-> errors,
         body   |-> IF errors # {} THEN {}
                    ELSE {<<r, content.drafts[r]>> : r \in Listed(table)}]

\* Routes are told apart by equality alone, and so are requesters and routers.
MCSymmetry == Permutations(Routes) \cup Permutations(Requests) \cup Permutations(Routers)

MCNone == {}
=============================================================================
