----------------------------- MODULE Endpoints ------------------------------
(***************************************************************************)
(* The HTTP endpoints of the module: which configurations New accepts      *)
(* (config.go), which routes Routes adds to the application's router       *)
(* (module.go), what the page it serves refers to (internal/ui and the     *)
(* published views), and which routes the module's own document leaves out *)
(* (generator.go, excludedByPackage).  Four pieces of code that spell the  *)
(* same paths independently of each other.                                 *)
(*                                                                         *)
(* A path is the sequence of its segments.  The internal prefix /_arandu,  *)
(* which excludedByPackage treats as well, is left to Generator.           *)
(***************************************************************************)
EXTENDS Naturals, Sequences, FiniteSets, SequencesExt

CONSTANTS Segments,          \* what paths consist of
          Configs,           \* what New may be asked for
          Unset,             \* an empty UIPath or SpecPath
          Irregular,         \* segments a static path must not have
          ApplicationRoutes, \* what the application may register
          Routers,
          Naming,            \* the routers that put the module's name on its routes
          NoModule, NoRouter, \* before New, before Routes
          MaxRoutes          \* bound of the application's routes

\* The parts of the module's route names.  A part is mounted for a purpose.
Parts == {"spec", "ui", "redirect", "initializer", "theme_css", "theme_js", "asset", "none"}

Path == Seq(Segments)

\* The segments the module makes paths of.
Assets == {"swagger-ui-bundle.js", "swagger-ui.css", "LICENSE"}

Files == {"openapi.json", "{$}", "swagger-initializer.js", "theme.css", "theme.js"}

Own == {"docs", "assets", "5.32.14"} \cup Assets \cup Files

Config == [enabled : BOOLEAN, disableUI : BOOLEAN, disableSpec : BOOLEAN,
           ui : Path \cup {Unset}, spec : Path \cup {Unset},
           styled : BOOLEAN,   \* any styling of the Theme but the two that follow
           backURL : BOOLEAN,  \* Theme.BackURL is not empty
           toggle : BOOLEAN,   \* not Theme.DisableThemeToggle
           script : BOOLEAN]   \* Theme.CustomJS is not empty

Route == [method : {"GET", "POST"}, path : Path, part : Parts, owner : {"swagger", "app"}]

ASSUME EndpointsAssumption ==
    /\ \A c \in Configs : c \in Config
    /\ \A r \in ApplicationRoutes : r \in Route /\ r.part = "none" /\ r.owner = "app"
    /\ Own \subseteq Segments
    /\ Unset \notin Path
    /\ "{$}" \in Irregular
    /\ Naming \subseteq Routers /\ NoRouter \notin Routers
    /\ NoModule \notin Config
    /\ MaxRoutes \in Nat

VARIABLES module,   \* Module.cfg, once New has succeeded
          captured, \* Module.router
          routes    \* router -> the routes registered with it

endpointsVars == <<module, captured, routes>>

EndpointsInit ==
    /\ module = NoModule
    /\ captured = NoRouter
    /\ routes = [r \in Routers |-> {}]

-----------------------------------------------------------------------------
(* withDefaults, Validate and New *)

\* DefaultSpecPath lies below DefaultUIPath as the other defaults lie below theirs.
Effective(c) ==
    LET ui == IF c.ui = Unset THEN <<"docs">> ELSE c.ui
    IN  [c EXCEPT !.ui = ui,
                  !.spec = IF c.spec = Unset THEN Append(ui, "openapi.json") ELSE c.spec,
                  !.backURL = TRUE]

Below(prefix, path) == IsStrictPrefix(prefix, path)

\* The root and the internal paths are refused, and what path.Clean would change or
\* a router would read as a pattern.
Static(path) ==
    /\ path # <<>>
    /\ path[1] # "_arandu"
    /\ \A i \in DOMAIN path : path[i] \notin Irregular

\* Mutant: the paths are compared as they were given.
CollidesAsGiven(c) ==
    \/ c.ui = c.spec
    \/ \E file \in {"assets", "swagger-initializer.js", "theme.css", "theme.js"} :
          c.ui # Unset /\ c.spec = Append(c.ui, file)

\* The specification path is one of the UI's.
Collides(c) ==
    LET ui == Effective(c).ui
        spec == Effective(c).spec
    IN  \/ spec = ui
        \/ spec = Append(ui, "assets") \/ Below(Append(ui, "assets"), spec)
        \/ spec \in {Append(ui, file) : file \in {"swagger-initializer.js", "theme.css", "theme.js"}}

\* Mutant: a UI without a specification is accepted.
ValidAnyway(c) ==
    \/ ~c.enabled
    \/ /\ Static(Effective(c).ui) /\ Static(Effective(c).spec)
       /\ ~c.disableUI /\ ~c.disableSpec => ~Collides(c)

\* The rest of what Validate looks at has nothing to do with endpoints.
Valid(c) ==
    \/ ~c.enabled
    \/ /\ c.disableSpec => c.disableUI
       /\ Static(Effective(c).ui) /\ Static(Effective(c).spec)
       /\ ~c.disableUI /\ ~c.disableSpec => ~Collides(c)

New(c) ==
    /\ module = NoModule
    /\ Valid(c)
    /\ module' = Effective(c)
    /\ UNCHANGED <<captured, routes>>

-----------------------------------------------------------------------------
(* Routes *)

AssetPath(ui, asset) == ui \o <<"assets", "5.32.14", asset>>

\* Mutant: what has a default does not count.
HasThemeBefore(c) == c.styled \/ c.toggle

HasTheme(c) == c.styled \/ c.backURL \/ c.toggle

Mount(path, part) == [method |-> "GET", path |-> path, part |-> part, owner |-> "swagger"]

\* What Routes registers for an effective configuration.
Mounted(c) ==
    IF ~c.enabled THEN {} ELSE
    (IF c.disableSpec THEN {} ELSE {Mount(c.spec, "spec")})
    \cup (IF c.disableUI THEN {} ELSE
            {Mount(c.ui, "ui"),
             Mount(Append(c.ui, "{$}"), "redirect"),
             Mount(Append(c.ui, "swagger-initializer.js"), "initializer")}
            \cup {Mount(p, "theme_css") : p \in IF HasTheme(c) THEN {Append(c.ui, "theme.css")} ELSE {}}
            \cup {Mount(p, "theme_js") : p \in IF c.script THEN {Append(c.ui, "theme.js")} ELSE {}}
            \cup {Mount(AssetPath(c.ui, a), "asset") : a \in Assets})

Clashes(r, s) == r.method = s.method /\ r.path = s.path

\* A router panics when it is asked for the same pattern twice, at boot.
Accepts(table, added) == \A r \in table, s \in added : ~Clashes(r, s)

\* Only a router that names modules tells the module's routes from the application's.
Owned(router, added) ==
    {IF router \in Naming THEN r ELSE [r EXCEPT !.owner = "app"] : r \in added}

RegisterEndpoints(router) ==
    /\ module # NoModule
    /\ Accepts(routes[router], Mounted(module))
    /\ captured' = router
    /\ routes' = [routes EXCEPT ![router] = @ \cup Owned(router, Mounted(module))]
    /\ UNCHANGED module

\* The application registers routes before or after the module's.
RegisterRoute(router, route) ==
    /\ Accepts(routes[router], {route})
    /\ Cardinality({r \in UNION {routes[x] : x \in Routers} : r.part = "none"}) < MaxRoutes
    /\ routes' = [routes EXCEPT ![router] = @ \cup {route}]
    /\ UNCHANGED <<module, captured>>

EndpointsNext ==
    \/ \E c \in Configs : New(c)
    \/ \E router \in Routers : RegisterEndpoints(router)
    \/ \E router \in Routers, route \in ApplicationRoutes : RegisterRoute(router, route)

EndpointsSpec == EndpointsInit /\ [][EndpointsNext]_endpointsVars

-----------------------------------------------------------------------------
(* excludedByPackage *)

\* Mutant: the switches are not looked at.
OnOwnPathAlways(path, c) ==
    \/ path = c.spec
    \/ path \in {c.ui, Append(c.ui, "{$}"), Append(c.ui, "swagger-initializer.js")}
    \/ Below(Append(c.ui, "assets"), path)

\* Mutant: the redirect is forgotten.
OnOwnPathButRedirect(path, c) ==
    \/ ~c.disableSpec /\ path = c.spec
    \/ /\ ~c.disableUI
       /\ \/ path \in {c.ui, Append(c.ui, "swagger-initializer.js")}
          \/ Below(Append(c.ui, "assets"), path)

OnOwnPath(path, c) ==
    \/ ~c.disableSpec /\ path = c.spec
    \/ /\ ~c.disableUI
       /\ \/ path \in {c.ui, Append(c.ui, "{$}"), Append(c.ui, "swagger-initializer.js")}
          \/ Below(Append(c.ui, "assets"), path)

Excluded(route, c) == route.owner = "swagger" \/ OnOwnPath(route.path, Effective(c))

Served == IF captured = NoRouter THEN {} ELSE routes[captured]

-----------------------------------------------------------------------------
(* The pages *)

\* What the embedded page, the initializer and the published view have a browser load.
EmbeddedLinks(c) ==
    {AssetPath(c.ui, "swagger-ui.css"), AssetPath(c.ui, "swagger-ui-bundle.js"),
     Append(c.ui, "swagger-initializer.js"), c.spec}
    \cup (IF HasTheme(c) THEN {Append(c.ui, "theme.css")} ELSE {})
    \cup (IF c.script THEN {Append(c.ui, "theme.js")} ELSE {})

PublishedLinks(c) ==
    {AssetPath(c.ui, "swagger-ui.css"), Append(c.ui, "theme.css"),
     AssetPath(c.ui, "swagger-ui-bundle.js"), Append(c.ui, "swagger-initializer.js"), c.spec}

-----------------------------------------------------------------------------
(* Properties *)

(***************************************************************************)
(* Routes never mounts one pattern for two purposes, whatever of the paths *)
(* was left to its default and whatever is switched off: the router would  *)
(* panic while the application boots.  Validate compares the specification *)
(* path with each path Routes makes up (config.go:333, module.go:166).     *)
(***************************************************************************)
EndpointsNeverClash ==
    module # NoModule =>
        \A r, s \in Mounted(module) : Clashes(r, s) => r = s

(***************************************************************************)
(* Whatever a page of the UI has the browser load is mounted in the router *)
(* that serves the page, whether the page is the embedded one or the       *)
(* published view, which asks for the theme's stylesheet unconditionally.  *)
(* That Routes mounts it even for the zero Theme rests on the default of   *)
(* BackURL (config.go:430), and that the initializer finds the             *)
(* specification on Validate (config.go:327).                              *)
(***************************************************************************)
PagesAreServed ==
    \A r \in Served : r.part = "ui" =>
        EmbeddedLinks(module) \cup PublishedLinks(module) \subseteq {s.path : s \in Served}

(***************************************************************************)
(* "The effective UI, initializer, asset, and specification paths are      *)
(* excluded" (docs/filters.md:16): the document describes none of these    *)
(* endpoints, nor the redirect, whatever of the paths was left to its      *)
(* default and whether or not the router names the module; and on one that *)
(* does, it describes no endpoint of the module at all.  That is less than *)
(* docs/routes.md:68, "Swagger's own routes are always excluded": theme.css*)
(* and theme.js are not among the paths compared, and on a router that     *)
(* does not name the module nothing else keeps them out.                   *)
(***************************************************************************)
EndpointsStayUndocumented ==
    \A r \in Served :
        (\/ r.part \in {"ui", "redirect", "initializer", "asset", "spec"}
         \/ r.part # "none" /\ captured \in Naming) => Excluded(r, module)

(***************************************************************************)
(* A route of the application is left out of the document only if it       *)
(* shares its path with an endpoint the module mounts, or would mount were *)
(* it enabled, or lies in the namespace of its assets: an endpoint that is *)
(* switched off takes no route of the application with it.                 *)
(***************************************************************************)
ApplicationIsDocumented ==
    \A r \in Served :
        LET own == Mounted([module EXCEPT !.enabled = TRUE])
        IN  r.part = "none" /\ Excluded(r, module) =>
               \/ \E s \in own : s.path = r.path
               \/ \E s \in own : s.part = "ui" /\ Below(Append(s.path, "assets"), r.path)

=============================================================================
