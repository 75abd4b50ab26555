---------------------------- MODULE MCEndpoints -----------------------------
(***************************************************************************)
(* Every pair of a UI path and a specification path that meet in one of    *)
(* the ways Validate knows, each also by way of a default, with every      *)
(* combination of the switches, and application routes on and beside them. *)
(***************************************************************************)
EXTENDS Endpoints

MCIrregular == {"{$}", "{id}", ".."}

MCSegments == Own \cup {"api", "_arandu", "users", "logo.png"} \cup MCIrregular

UIPaths == {Unset, <<"docs">>, <<"api">>, <<>>, <<"_arandu", "docs">>, <<"docs", "{id}">>}

SpecPaths ==
    {Unset, <<"docs">>, <<"api">>, <<"docs", "openapi.json">>, <<"docs", "assets">>,
     <<"docs", "assets", "5.32.14", "LICENSE">>, <<"docs", "swagger-initializer.js">>,
     <<"docs", "theme.css">>, <<"docs", "theme.js">>, <<"docs", "{$}">>, <<"api", "theme.css">>}

MCConfigs ==
    [enabled : BOOLEAN, disableUI : BOOLEAN, disableSpec : BOOLEAN,
     ui : UIPaths, spec : SpecPaths,
     styled : BOOLEAN, backURL : {FALSE}, toggle : BOOLEAN, script : BOOLEAN]

MCApplicationRoutes ==
    [method : {"GET", "POST"},
     path : {<<"docs">>, <<"docs", "openapi.json">>, <<"api">>, <<"docs", "theme.css">>,
             <<"docs", "assets", "logo.png">>, <<"docs", "{$}">>, <<"users">>},
     part : {"none"}, owner : {"app"}]

=============================================================================
